---- MODULE Spec2Model ----
(***************************************************************************)
(* MCIS engine of sebaraj/MCIS-BCI: the Bron-Kerbosch product-graph        *)
(* engine, the KPT hypergraph matcher and the MCISAlgorithm dispatcher.    *)
(*                                                                         *)
(* A graph is a record [nodes, edges, tag, weight, version]: nodes is the   *)
(* key set of Graph::nodes, edges the set of <<u, v>> with v in u's        *)
(* children map, weight the weight stored with each edge, tag the          *)
(* Node::tag of every node, version the count of mutations so far.         *)
(***************************************************************************)
EXTENDS Integers, Sequences, FiniteSets, TLC

VARIABLES
    graphs,     \* the caller's list of input graphs (const Graph* vector)
    tag,        \* the optional tag handed to run / find (NoTag = nullopt)
    type,       \* the AlgorithmType handed to MCISAlgorithm::run ("none": direct call)
    deadline,   \* when the 5000 ms expire, counted in recursive calls started
    pc,         \* "ready" before the call, "done" after it
    call,       \* which entry point ran
    outcome,    \* what the call returned
    path,       \* which helper of BronKerboschSerial::find produced the result
    cliques,    \* the clique vector find handed to convert_cliques_to_subgraphs
    entries,    \* the recursive calls entered, in order; of kPCM_Match their
                \* arguments and branch, of Bron-Kerbosch: had the deadline passed,
                \* did the call record a clique
    outcome2,   \* the second call of a two-call comparison
    matching,   \* the EdgeSet kPCM_Match returned to KPT::find
    types,      \* the AlgorithmType vector handed to run_many
    log,        \* the calls of run that run_many has made, with what each returned
    stdlib,     \* the standard library's unordered_map order and std::hash
    G,          \* a Graph object under a caller's mutators, or a set of bare Nodes
    ret         \* the last call made on G or on one of its nodes, with its result

vars == <<graphs, tag, type, deadline, pc, call, outcome, path, cliques,
          outcome2, matching, types, log, entries, stdlib, G, ret>>

----------------------------------------------------------------------------
(* Bounds of the explored inputs *)

\* edges per enumerated input graph
MaxEdges == 3
\* graphs per enumerated input list
MaxGraphs == 3
\* largest finite deadline explored (in recursive calls)
MaxDeadline == 1

----------------------------------------------------------------------------
(* Strings, ids and their order *)

\* the node ids in use, in std::string order
IdOrder ==
    <<"A", "B", "C", "n01", "n02", "n03", "n04", "n05", "n06", "n07", "n08",
      "n09", "n10", "n11", "n12", "n13">>

NoTag == "<nullopt>"

\* a deadline the recursion never reaches, and one that expires when
\* n recursive calls have started
NoTimeout == [expires |-> FALSE, at |-> 0]
ExpiresAt(n) == [expires |-> TRUE, at |-> n]

IdRank(id) == CHOOSE i \in 1..Len(IdOrder) : IdOrder[i] = id

\* std::string operator< on the ids in use
IdLess(a, b) == IdRank(a) < IdRank(b)

\* std::vector<std::string> operator<: lexicographic
RECURSIVE TupleLessFrom(_, _, _)
TupleLessFrom(p, q, i) ==
    IF i > Len(p) THEN i <= Len(q)
    ELSE IF i > Len(q) THEN FALSE
    ELSE IF IdLess(p[i], q[i]) THEN TRUE
    ELSE IF IdLess(q[i], p[i]) THEN FALSE
    ELSE TupleLessFrom(p, q, i + 1)

TupleLess(p, q) == TupleLessFrom(p, q, 1)

\* *S.begin() of a non-empty std::set of tuples: its least element
SetBegin(S) == CHOOSE x \in S : \A y \in S : ~TupleLess(y, x)

\* iteration order of a std::set of tuples: ascending
RECURSIVE SortedSeq(_)
SortedSeq(S) ==
    IF S = {} THEN <<>>
    ELSE LET m == SetBegin(S)
         IN  <<m>> \o SortedSeq(S \ {m})

\* the canonical product-node name: the component ids joined by '_'
RECURSIVE JoinFrom(_, _)
JoinFrom(ids, i) ==
    IF i > Len(ids) THEN ""
    ELSE ids[i] \o (IF i < Len(ids) THEN "_" ELSE "") \o JoinFrom(ids, i + 1)

Join(ids) == JoinFrom(ids, 1)

----------------------------------------------------------------------------
(* Graph and Node accessors *)

\* Graph::Graph(): no nodes
EmptyGraph == [nodes |-> {}, edges |-> {}, tag |-> <<>>, weight |-> <<>>,
               version |-> 0]

get_num_nodes(g) == Cardinality(g.nodes)

\* Graph::get_node: a node or nullptr
has_node(g, id) == id \in g.nodes

\* Node::contains_edge
contains_edge(g, u, v) == <<u, v>> \in g.edges

\* Node::get_children
get_children(g, u) == {v \in g.nodes : <<u, v>> \in g.edges}

get_num_children(g, u) == Cardinality({e \in g.edges : e[1] = u})

get_num_parents(g, u) == Cardinality({e \in g.edges : e[2] = u})

get_tag(g, u) == g.tag[u]

\* Graph::add_node: a new untagged node; a duplicate id is refused
add_node(g, id) ==
    IF id \in g.nodes THEN g
    ELSE [g EXCEPT !.nodes = @ \cup {id},
                   !.tag = [n \in g.nodes \cup {id} |->
                               IF n = id THEN "" ELSE g.tag[n]],
                   !.version = @ + 1]

\* Graph::add_edge over Node::add_edge: missing endpoints, an existing edge
\* and a self-loop leave the graph as it is
add_edge(g, from_id, to_id, w) ==
    IF from_id \notin g.nodes \/ to_id \notin g.nodes THEN g
    ELSE IF <<from_id, to_id>> \in g.edges THEN g
    ELSE IF from_id = to_id THEN g
    ELSE [g EXCEPT !.edges = @ \cup {<<from_id, to_id>>},
                   !.weight = [e \in g.edges \cup {<<from_id, to_id>>} |->
                                  IF e = <<from_id, to_id>> THEN w
                                  ELSE g.weight[e]],
                   !.version = @ + 1]

----------------------------------------------------------------------------
(* ProductGraph builder *)

\* generate_product_nodes: every combination of one node id per graph
RECURSIVE ProductNodesFrom(_, _)
ProductNodesFrom(gs, i) ==
    IF i > Len(gs) THEN {<<>>}
    ELSE LET rest == ProductNodesFrom(gs, i + 1)
         IN  {<<id>> \o r : id \in gs[i].nodes, r \in rest}

ProductNodes(gs) == IF gs = <<>> THEN {} ELSE ProductNodesFrom(gs, 1)

\* the loop with the forward direction of each edge only
RECURSIVE AdjacentFrom_forward_only(_, _, _, _, _)
AdjacentFrom_forward_only(p1, p2, gs, i, first_edge_in_g) ==
    IF i > Len(gs) THEN TRUE
    ELSE IF ~has_node(gs[i], p1[i]) \/ ~has_node(gs[i], p2[i]) THEN FALSE
    ELSE LET edge_in_g == contains_edge(gs[i], p1[i], p2[i])
         IN  IF i = 1 THEN AdjacentFrom_forward_only(p1, p2, gs, i + 1, edge_in_g)
             ELSE IF edge_in_g # first_edge_in_g THEN FALSE
             ELSE AdjacentFrom_forward_only(p1, p2, gs, i + 1, first_edge_in_g)

\* the loop of are_product_nodes_adjacent from graph i on
RECURSIVE AdjacentFrom(_, _, _, _, _)
AdjacentFrom(p1, p2, gs, i, first_edge_in_g) ==
    IF i > Len(gs) THEN TRUE
    ELSE IF ~has_node(gs[i], p1[i]) \/ ~has_node(gs[i], p2[i]) THEN FALSE
    ELSE LET edge_in_g == contains_edge(gs[i], p1[i], p2[i])
                          \/ contains_edge(gs[i], p2[i], p1[i])
         IN  IF i = 1 THEN AdjacentFrom(p1, p2, gs, i + 1, edge_in_g)
             ELSE IF edge_in_g # first_edge_in_g THEN FALSE
             ELSE AdjacentFrom(p1, p2, gs, i + 1, first_edge_in_g)

are_product_nodes_adjacent(p1, p2, gs) == AdjacentFrom(p1, p2, gs, 1, FALSE)

\* ProductGraph::adjacency (a node without an entry has the empty set)
Adjacency(gs) ==
    LET N == ProductNodes(gs)
    IN  [p \in N |-> {q \in N : q # p /\ (are_product_nodes_adjacent(p, q, gs)
                                          \/ are_product_nodes_adjacent(q, p, gs))}]

\* build_product_graph returns the pair (ProductNodes(gs), Adjacency(gs)); the
\* two fields are passed on separately, as nodes and adjacency

----------------------------------------------------------------------------
(* Bron-Kerbosch engine *)

\* the elapsed-time test made in the outermost call only
ExpiredOutermostOnly(st) ==
    st.deadline.expires /\ st.calls >= st.deadline.at /\ st.calls = 0

\* the elapsed-time test on entry of a recursive call: st.calls calls have
\* started before this one
Expired(st) == st.deadline.expires /\ st.calls >= st.deadline.at

\* one pass of choose_pivot's scan: strictly larger degree wins
RECURSIVE PivotScan(_, _, _, _)
PivotScan(seq, i, adj, best) ==
    IF i > Len(seq) THEN best
    ELSE LET degree == Cardinality(adj[seq[i]])
         IN  IF degree > best.max_degree
             THEN PivotScan(seq, i + 1, adj,
                            [max_degree |-> degree, best_pivot |-> seq[i],
                             found_pivot |-> TRUE])
             ELSE PivotScan(seq, i + 1, adj, best)

choose_pivot(P, X, adj) ==
    LET Ps == SortedSeq(P)
        Xs == SortedSeq(X)
        b0 == [max_degree |-> 0, best_pivot |-> <<>>, found_pivot |-> FALSE]
        b  == PivotScan(Xs, 1, adj, PivotScan(Ps, 1, adj, b0))
    IN  IF b.found_pivot THEN b.best_pivot
        ELSE IF P # {} THEN SetBegin(P)
        ELSE IF X # {} THEN SetBegin(X)
        ELSE <<>>

\* adjacency.find(n): the stored set, or empty
Neighbors(adj, n) == IF n \in DOMAIN adj THEN adj[n] ELSE {}

RECURSIVE bron_kerbosch_recursive_with_timeout(_, _, _, _, _)
RECURSIVE BKLoop(_, _, _, _, _, _, _)
bron_kerbosch_recursive_with_timeout(R, P, X, adj, st) ==
    LET st1 == [st EXCEPT !.calls = @ + 1,
                          !.entries = Append(@, [expired |-> Expired(st),
                                                 recorded |-> FALSE])]
    IN  IF Expired(st) THEN st1
        ELSE IF st.cliques # <<>> /\ Cardinality(st.cliques[1]) > 10 THEN st1
        ELSE IF P = {} /\ X = {}
             THEN IF R # {}
                  THEN [st1 EXCEPT !.cliques = Append(@, R),
                                   !.entries[Len(st1.entries)].recorded = TRUE]
                  ELSE st1
        ELSE LET pivot == choose_pivot(P, X, adj)
                 P_without_pivot_neighbors == P \ Neighbors(adj, pivot)
             IN  BKLoop(SortedSeq(P_without_pivot_neighbors), 1, R, P, X, adj, st1)

\* the for loop over P_without_pivot_neighbors, P and X changing as it goes
BKLoop(cand, i, R, P, X, adj, st) ==
    IF i > Len(cand) THEN st
    ELSE LET v == cand[i]
             v_neighbors == Neighbors(adj, v)
             st2 == bron_kerbosch_recursive_with_timeout(
                        R \cup {v}, P \cap v_neighbors, X \cap v_neighbors,
                        adj, st)
         IN  BKLoop(cand, i + 1, R, P \ {v}, X \cup {v}, adj, st2)

\* the cliques returned, with the entries of the recursion that found them
find_maximal_cliques_with_timeout(nodes, adjacency, dl) ==
    LET st == bron_kerbosch_recursive_with_timeout(
                  {}, nodes, {}, adjacency,
                  [cliques |-> <<>>, calls |-> 0, deadline |-> dl,
                   entries |-> <<>>])
    IN  [cliques |-> IF st.cliques = <<>>
                     THEN IF nodes # {} THEN <<{SetBegin(nodes)}>> ELSE <<>>
                     ELSE st.cliques,
         entries |-> st.entries]

\* create_subgraph_from_clique testing the edge in either direction, as the
\* adjacency of the product graph does
EdgeInAllEitherWay(p, q, gs) ==
    \A i \in 1..Len(gs) :
        /\ has_node(gs[i], p[i])
        /\ has_node(gs[i], q[i])
        /\ \/ contains_edge(gs[i], p[i], q[i])
           \/ contains_edge(gs[i], q[i], p[i])

\* the edges create_subgraph_from_clique adds, pair by pair
EdgeInAll(p, q, gs) ==
    \A i \in 1..Len(gs) :
        /\ has_node(gs[i], p[i])
        /\ has_node(gs[i], q[i])
        /\ contains_edge(gs[i], p[i], q[i])

RECURSIVE AddNodes(_, _, _)
AddNodes(g, seq, i) ==
    IF i > Len(seq) THEN g ELSE AddNodes(add_node(g, Join(seq[i])), seq, i + 1)

RECURSIVE AddEdgesRow(_, _, _, _, _)
AddEdgesRow(g, seq, i, j, gs) ==
    IF j > Len(seq) THEN g
    ELSE IF seq[i] # seq[j] /\ EdgeInAll(seq[i], seq[j], gs)
         THEN AddEdgesRow(add_edge(g, Join(seq[i]), Join(seq[j]), 1), seq, i, j + 1, gs)
         ELSE AddEdgesRow(g, seq, i, j + 1, gs)

\* the outer loop over prod_node1; each row is evaluated before the next starts
RECURSIVE AddEdges(_, _, _, _)
AddEdges(g, seq, i, gs) ==
    IF i > Len(seq) THEN g
    ELSE LET row == AddEdgesRow(g, seq, i, 1, gs)
         IN  IF row = g THEN AddEdges(g, seq, i + 1, gs)
             ELSE AddEdges(row, seq, i + 1, gs)

create_subgraph_from_clique(clique, gs) ==
    LET seq == SortedSeq(clique)
    IN  AddEdges(AddNodes(EmptyGraph, seq, 1), seq, 1, gs)

RECURSIVE MaxSize(_, _)
MaxSize(cs, i) ==
    IF i > Len(cs) THEN 0
    ELSE LET m == MaxSize(cs, i + 1)
             c == Cardinality(cs[i])
         IN  IF c > m THEN c ELSE m

\* convert_cliques_to_subgraphs keeping every recorded clique
RECURSIVE ConvertAll(_, _, _, _)
ConvertAll(cs, i, max_size, gs) ==
    IF i > Len(cs) THEN <<>>
    ELSE IF cs[i] # {}
         THEN <<create_subgraph_from_clique(cs[i], gs)>>
              \o ConvertAll(cs, i + 1, max_size, gs)
         ELSE ConvertAll(cs, i + 1, max_size, gs)

RECURSIVE ConvertFrom(_, _, _, _)
ConvertFrom(cs, i, max_size, gs) ==
    IF i > Len(cs) THEN <<>>
    ELSE IF Cardinality(cs[i]) = max_size /\ cs[i] # {}
         THEN <<create_subgraph_from_clique(cs[i], gs)>>
              \o ConvertFrom(cs, i + 1, max_size, gs)
         ELSE ConvertFrom(cs, i + 1, max_size, gs)

convert_cliques_to_subgraphs(cs, gs) ==
    IF cs = <<>> THEN <<>> ELSE ConvertFrom(cs, 1, MaxSize(cs, 1), gs)

\* the nodes of g in the order get_nodes() iterates them: the hash table's
\* order, which the standard library fixes
RECURSIVE SortedIds(_)
SortedIds(S) ==
    IF S = {} THEN <<>>
    ELSE LET m == CHOOSE x \in S : \A y \in S : ~IdLess(y, x)
         IN  <<m>> \o SortedIds(S \ {m})

Reverse(seq) == [i \in 1..Len(seq) |-> seq[Len(seq) + 1 - i]]

NodeIter(g, lib) ==
    IF lib.order = "asc" THEN SortedIds(g.nodes) ELSE Reverse(SortedIds(g.nodes))

Abs(x) == IF x < 0 THEN -x ELSE x
Max2(a, b) == IF a > b THEN a ELSE b
Min2(a, b) == IF a < b THEN a ELSE b

Degree(g, u) == get_num_children(g, u) + get_num_parents(g, u)

\* are_nodes_structurally_compatible({node1, node2})
are_nodes_structurally_compatible(g1, n1, g2, n2) ==
    LET first_deg == Degree(g1, n1)
        deg == Degree(g2, n2)
    IN  ~(Abs(first_deg - deg) > Max2(1, Min2(first_deg, deg) \div 2))

\* fallback bound of find_simple_mcis
MAX_NODES == 10

\* the first node of graph i compatible with node1, or none
RECURSIVE FirstCompatible(_, _, _, _, _)
FirstCompatible(g1, n1, g2, order, j) ==
    IF j > Len(order) THEN [found |-> FALSE, id |-> ""]
    ELSE IF are_nodes_structurally_compatible(g1, n1, g2, order[j])
         THEN [found |-> TRUE, id |-> order[j]]
         ELSE FirstCompatible(g1, n1, g2, order, j + 1)

\* the inner loop over graphs 2..N for one node of the first graph
RECURSIVE MatchRest(_, _, _, _, _)
MatchRest(gs, n1, i, acc, lib) ==
    IF i > Len(gs) THEN [compatible |-> TRUE, ids |-> acc]
    ELSE LET f == FirstCompatible(gs[1], n1, gs[i], NodeIter(gs[i], lib), 1)
         IN  IF f.found THEN MatchRest(gs, n1, i + 1, Append(acc, f.id), lib)
             ELSE [compatible |-> FALSE, ids |-> acc]

\* the outer loop over the first graph's nodes
RECURSIVE SimpleNodes(_, _, _, _, _)
SimpleNodes(gs, order, k, st, lib) ==
    IF k > Len(order) \/ st.added_nodes >= MAX_NODES THEN st
    ELSE LET m == MatchRest(gs, order[k], 2, <<order[k]>>, lib)
         IN  IF m.compatible
             THEN SimpleNodes(gs, order, k + 1,
                              [result |-> add_node(st.result, Join(m.ids)),
                               added_nodes |-> st.added_nodes + 1,
                               picked |-> Append(st.picked, m.ids)], lib)
             ELSE SimpleNodes(gs, order, k + 1, st, lib)

\* std::hash<std::string>{}(id1 + id2) % 4, which the standard library
\* fixes: a stand-in that spreads over 0..3 and shifts with lib.seed
RECURSIVE TupleCode(_, _)
TupleCode(p, i) == IF i > Len(p) THEN 0 ELSE IdRank(p[i]) * i + TupleCode(p, i + 1)

HashMod4(p, q, lib) == (TupleCode(p, 1) * 3 + TupleCode(q, 1) + lib.seed) % 4

\* the inner loop of the edge pass: node i against result node j onwards
RECURSIVE SimpleEdgesRow(_, _, _, _, _)
SimpleEdgesRow(g, picked, i, j, lib) ==
    IF j > Len(picked) THEN g
    ELSE IF /\ Join(picked[i]) # Join(picked[j])
            /\ get_num_nodes(g) < MAX_NODES
            /\ HashMod4(picked[i], picked[j], lib) = 0
         THEN SimpleEdgesRow(add_edge(g, Join(picked[i]), Join(picked[j]), 1),
                             picked, i, j + 1, lib)
         ELSE SimpleEdgesRow(g, picked, i, j + 1, lib)

\* the outer loop of the edge pass
RECURSIVE SimpleEdges(_, _, _, _)
SimpleEdges(g, picked, i, lib) ==
    IF i > Len(picked) THEN g
    ELSE SimpleEdges(SimpleEdgesRow(g, picked, i, 1, lib), picked, i + 1, lib)

find_simple_mcis(gs, lib) ==
    IF gs = <<>> THEN <<>>
    ELSE LET st == SimpleNodes(gs, NodeIter(gs[1], lib), 1,
                               [result |-> EmptyGraph, added_nodes |-> 0,
                                picked |-> <<>>], lib)
             result == SimpleEdges(st.result, st.picked, 1, lib)
         IN  IF get_num_nodes(result) > 0 THEN <<result>> ELSE <<>>

Success(rs) == [ok |-> TRUE, error |-> "", results |-> rs]
Failure(e) == [ok |-> FALSE, error |-> e, results |-> <<>>]

\* BronKerboschSerial::find with the gate at >= 1000 product nodes
BronKerboschSerial_find_gate_ge(gs, t, dl, lib) ==
    IF \E i \in 1..Len(gs) : get_num_nodes(gs[i]) = 0
    THEN [outcome |-> Failure("EMPTY_GRAPH"), path |-> "none", cliques |-> <<>>,
          entries |-> <<>>]
    ELSE LET nodes == ProductNodes(gs)
             adjacency == Adjacency(gs)
         IN  IF Cardinality(nodes) >= 1000
             THEN [outcome |-> Success(find_simple_mcis(gs, lib)),
                   path |-> "find_simple_mcis", cliques |-> <<>>,
                   entries |-> <<>>]
             ELSE LET found == find_maximal_cliques_with_timeout(nodes, adjacency, dl)
                      cs == found.cliques
                  IN  [cliques |-> cs, entries |-> found.entries,
                       outcome |-> Success(convert_cliques_to_subgraphs(cs, gs)),
                       path |-> "find_maximal_cliques_with_timeout"]

\* BronKerboschSerial::find; the tag is not read
BronKerboschSerial_find(gs, t, dl, lib) ==
    IF \E i \in 1..Len(gs) : get_num_nodes(gs[i]) = 0
    THEN [outcome |-> Failure("EMPTY_GRAPH"), path |-> "none", cliques |-> <<>>,
          entries |-> <<>>]
    ELSE LET nodes == ProductNodes(gs)
             adjacency == Adjacency(gs)
         IN  IF Cardinality(nodes) > 1000
             THEN [outcome |-> Success(find_simple_mcis(gs, lib)),
                   path |-> "find_simple_mcis", cliques |-> <<>>,
                   entries |-> <<>>]
             ELSE LET found == find_maximal_cliques_with_timeout(nodes, adjacency, dl)
                      cs == found.cliques
                  IN  [cliques |-> cs, entries |-> found.entries,
                       outcome |-> Success(convert_cliques_to_subgraphs(cs, gs)),
                       path |-> "find_maximal_cliques_with_timeout"]

----------------------------------------------------------------------------
(* KPT matcher *)

\* the while loop of is_reachable: queue q, visited set
RECURSIVE ReachLoop(_, _, _, _)
ReachLoop(g, q, visited, end_node_id) ==
    IF q = <<>> THEN FALSE
    ELSE LET u_id == Head(q)
         IN  IF ~has_node(g, u_id)
             THEN ReachLoop(g, Tail(q), visited, end_node_id)
             ELSE LET children == get_children(g, u_id)
                      fresh == children \ visited
                  IN  IF end_node_id \in children THEN TRUE
                      ELSE ReachLoop(g, Tail(q) \o SortedIds(fresh),
                                     visited \cup fresh, end_node_id)

\* is_reachable without the traversal
is_reachable_same_node(g, start_node_id, end_node_id) ==
    start_node_id = end_node_id

is_reachable(g, start_node_id, end_node_id) ==
    IF start_node_id = end_node_id THEN TRUE
    ELSE ReachLoop(g, <<start_node_id>>, {start_node_id}, end_node_id)

\* are_conflicting looking at the first graph only
are_conflicting_first_graph(p1, p2, gs) ==
    IF p1 = p2 THEN TRUE
    ELSE \E i \in 1..Min2(1, Len(gs)) :
             \/ is_reachable(gs[i], p1[i], p2[i])
             \/ is_reachable(gs[i], p2[i], p1[i])

are_conflicting(p1, p2, gs) ==
    IF p1 = p2 THEN TRUE
    ELSE \E i \in 1..Len(gs) :
             \/ is_reachable(gs[i], p1[i], p2[i])
             \/ is_reachable(gs[i], p2[i], p1[i])

\* w[edge] of a std::map: a missing key reads as 0
WeightOf(w, e) == IF e \in DOMAIN w THEN w[e] ELSE 0

RECURSIVE SumWeights(_, _)
SumWeights(S, w) ==
    IF S = {} THEN 0
    ELSE LET e == CHOOSE x \in S : TRUE
         IN  WeightOf(w, e) + SumWeights(S \ {e}, w)

\* the search finding no low-conflict edge
FirstLowConflict_none(Fs, i, F, w, total_weight, alpha, gs) ==
    [found |-> FALSE, edge |-> <<>>]

\* the first e of F, in set order, whose conflict sum is at most alpha:
\* sum of x[q] <= alpha with x[q] = w[q] / total_weight
RECURSIVE FirstLowConflict(_, _, _, _, _, _, _)
FirstLowConflict(Fs, i, F, w, total_weight, alpha, gs) ==
    IF i > Len(Fs) THEN [found |-> FALSE, edge |-> <<>>]
    ELSE LET conflict_sum ==
                 SumWeights({q \in F : are_conflicting(Fs[i], q, gs)}, w)
         IN  IF conflict_sum <= alpha * total_weight
             THEN [found |-> TRUE, edge |-> Fs[i]]
             ELSE FirstLowConflict(Fs, i + 1, F, w, total_weight, alpha, gs)

\* step 6 of kPCM_Match: add the selected edge unless it conflicts with M'
UpdateMatching(M_prime, selected_edge, gs) ==
    IF \E m_edge \in M_prime : are_conflicting(selected_edge, m_edge, gs)
    THEN M_prime
    ELSE M_prime \cup {selected_edge}

\* the local ratio step taking one more than the selected edge's weight
LocalRatioWeights_overdrawn(F, w, selected_edge, gs) ==
    LET w_e == WeightOf(w, selected_edge)
        w_hat == [f \in F |->
                     IF are_conflicting(selected_edge, f, gs) THEN w_e + 1 ELSE 0]
    IN  [f \in F |-> WeightOf(w, f) - w_hat[f]]

\* step 5 of kPCM_Match: w_new = w - w_hat
LocalRatioWeights(F, w, selected_edge, gs) ==
    LET w_e == WeightOf(w, selected_edge)
        w_hat == [f \in F |->
                     IF are_conflicting(selected_edge, f, gs)
                     THEN Min2(WeightOf(w, f), w_e) ELSE 0]
    IN  [f \in F |-> WeightOf(w, f) - w_hat[f]]

\* weights are the doubles 0.0 and 1.0 and their differences, kept as
\* integers; x[e] > 1e-9 is w[e] * 10^9 > total_weight
RECURSIVE kPCM_Match(_, _, _)
kPCM_Match(F, w, gs) ==
    IF F = {} THEN {}
    ELSE LET total_weight == SumWeights(F, w)
         IN  IF total_weight = 0 THEN {}
             ELSE LET F_nonzero ==
                          {e \in F : WeightOf(w, e) * 1000000000 > total_weight}
                  IN  IF Cardinality(F_nonzero) < Cardinality(F)
                      THEN kPCM_Match(F_nonzero, w, gs)
                      ELSE LET Fs == SortedSeq(F)
                               alpha == 2 * Len(gs)
                               low == FirstLowConflict(Fs, 1, F, w, total_weight,
                                                       alpha, gs)
                               selected_edge ==
                                   IF low.found THEN low.edge ELSE Fs[1]
                               w_new == LocalRatioWeights(F, w, selected_edge, gs)
                               M_prime == kPCM_Match(F, w_new, gs)
                           IN  UpdateMatching(M_prime, selected_edge, gs)

\* one nested call of kPCM_Match: its arguments F and w, the branch it takes
\* and, at a local ratio step, the selected edge and found_low_conflict_edge
Entered(F, w, step, selected_edge, found) ==
    [F |-> F, w |-> w, step |-> step, selected_edge |-> selected_edge,
     found |-> found]

\* the nested calls of kPCM_Match(F, w, graphs), outermost first; every call
\* makes at most one recursive call
RECURSIVE kPCM_Calls(_, _, _)
kPCM_Calls(F, w, gs) ==
    IF F = {} THEN <<Entered(F, w, "empty", <<>>, FALSE)>>
    ELSE LET total_weight == SumWeights(F, w)
         IN  IF total_weight = 0 THEN <<Entered(F, w, "zero weight", <<>>, FALSE)>>
             ELSE LET F_nonzero ==
                          {e \in F : WeightOf(w, e) * 1000000000 > total_weight}
                  IN  IF Cardinality(F_nonzero) < Cardinality(F)
                      THEN <<Entered(F, w, "zero-value edges", <<>>, FALSE)>>
                           \o kPCM_Calls(F_nonzero, w, gs)
                      ELSE LET Fs == SortedSeq(F)
                               alpha == 2 * Len(gs)
                               low == FirstLowConflict(Fs, 1, F, w, total_weight,
                                                       alpha, gs)
                               selected_edge ==
                                   IF low.found THEN low.edge ELSE Fs[1]
                               w_new == LocalRatioWeights(F, w, selected_edge, gs)
                           IN  <<Entered(F, w, "local ratio", selected_edge,
                                         low.found)>>
                               \o kPCM_Calls(F, w_new, gs)

\* nodes_per_graph: the nodes of each graph that pass the tag test
TagFiltered(g, t) == {n \in g.nodes : t = NoTag \/ get_tag(g, n) = t}

RECURSIVE HyperedgesFrom(_, _, _)
HyperedgesFrom(gs, t, i) ==
    IF i > Len(gs) THEN {<<>>}
    ELSE LET rest == HyperedgesFrom(gs, t, i + 1)
         IN  {<<id>> \o r : id \in TagFiltered(gs[i], t), r \in rest}

\* the matching KPT::find computes for an accepted input
KPT_matching(gs, t) ==
    LET F == HyperedgesFrom(gs, t, 1)
        w == [e \in F |-> 1]
    IN  kPCM_Match(F, w, gs)

\* KPT::find without the test of the members' node counts
KPT_find_members_unchecked(gs, t) ==
    IF gs = <<>> THEN Failure("EMPTY_GRAPH")
    ELSE Success(<<AddNodes(EmptyGraph, SortedSeq(KPT_matching(gs, t)), 1)>>)

\* KPT::find joining every two nodes of the result by an edge
KPT_results_with_edges(M) == <<create_subgraph_from_clique(M, <<>>)>>

\* the result list KPT::find builds from the matching
KPT_results(M) == <<AddNodes(EmptyGraph, SortedSeq(M), 1)>>

KPT_find(gs, t) ==
    IF gs = <<>> THEN Failure("EMPTY_GRAPH")
    ELSE IF \E i \in 1..Len(gs) : get_num_nodes(gs[i]) = 0
         THEN Failure("EMPTY_GRAPH")
    ELSE Success(KPT_results(KPT_matching(gs, t)))

\* the nested calls of kPCM_Match KPT::find causes, none when it returns early
KPT_find_calls(gs, t) ==
    IF KPT_find(gs, t).ok
    THEN LET F == HyperedgesFrom(gs, t, 1)
         IN  kPCM_Calls(F, [e \in F |-> 1], gs)
    ELSE <<>>

\* the local variable matching of KPT::find, empty when find returns early
KPT_find_matching(gs, t) ==
    IF KPT_find(gs, t).ok THEN KPT_matching(gs, t) ELSE {}

----------------------------------------------------------------------------
(* Node objects.  A Node* is modelled by the id of the node it points to;  *)
(* a set of live Node objects is a function from pointers to records       *)
(* [id, num_parents, num_children, children, parents, tag], children and   *)
(* parents being the unordered_map<Node*, int> of the class.               *)

\* the pointers, edge weights and tags the explored callers use
NodePtrs == {"A", "B", "C"}
NodePair == {"A", "B"}
MaxWeight == 2
Weights == 1..MaxWeight
NodeTags == {"", "t"}

NoError == "nullopt"

\* the enumerators of mcis::GraphError
GraphError ==
    {"NODE_ALREADY_EXISTS", "NODE_DOES_NOT_EXIST", "EDGE_ALREADY_EXISTS",
     "EDGE_DOES_NOT_EXIST"}

\* what a std::optional<GraphError> can hand back for err: err itself when
\* it is an enumerator or nullopt, else any enumerator, there being none of
\* that name
Returned(err) == IF err \in GraphError \cup {NoError} THEN {err} ELSE GraphError

EmptyMap == [k \in {} |-> 0]
\* m[k] = v of an unordered_map
Put(m, k, v) == [x \in DOMAIN m \cup {k} |-> IF x = k THEN v ELSE m[x]]
\* m.erase(k)
Erase(m, k) == [x \in DOMAIN m \ {k} |-> m[x]]

Node_Node(id) ==
    [id |-> id, num_parents |-> 0, num_children |-> 0,
     children |-> EmptyMap, parents |-> EmptyMap, tag |-> ""]

Node_add_parent(ns, self, parent, weight) ==
    IF parent \in DOMAIN ns[self].parents
    THEN [err |-> IF ns[self].parents[parent] = weight THEN NoError
                  ELSE "EDGE_ALREADY_EXISTS",
          nodes |-> ns]
    ELSE IF ns[self].id = ns[parent].id
    THEN [err |-> "SELF_LOOP", nodes |-> ns]
    ELSE [err |-> NoError,
          nodes |-> [ns EXCEPT ![self].parents = Put(@, parent, weight),
                               ![self].num_parents = @ + 1]]

\* Node::remove_parent leaving num_parents alone
Node_remove_parent_map_only(ns, self, parent) ==
    IF parent \notin DOMAIN ns[self].parents
    THEN [err |-> "EDGE_DOES_NOT_EXIST", nodes |-> ns]
    ELSE [err |-> NoError,
          nodes |-> [ns EXCEPT ![self].parents = Erase(@, parent)]]

Node_remove_parent(ns, self, parent) ==
    IF parent \notin DOMAIN ns[self].parents
    THEN [err |-> "EDGE_DOES_NOT_EXIST", nodes |-> ns]
    ELSE [err |-> NoError,
          nodes |-> [ns EXCEPT ![self].parents = Erase(@, parent),
                               ![self].num_parents = @ - 1]]

\* Node::add_edge leaving the neighbour's parents map alone
Node_add_edge_children_only(ns, self, neighbor, weight) ==
    IF neighbor \in DOMAIN ns[self].children
    THEN [err |-> IF ns[self].children[neighbor] = weight THEN NoError
                  ELSE "EDGE_ALREADY_EXISTS",
          nodes |-> ns]
    ELSE IF ns[self].id = ns[neighbor].id
    THEN [err |-> "SELF_LOOP", nodes |-> ns]
    ELSE [err |-> NoError,
          nodes |-> [ns EXCEPT ![self].children = Put(@, neighbor, weight),
                               ![self].num_children = @ + 1]]

\* Node::add_edge without the test for an edge that is already there
Node_add_edge_unchecked(ns, self, neighbor, weight) ==
    IF ns[self].id = ns[neighbor].id
    THEN [err |-> "SELF_LOOP", nodes |-> ns]
    ELSE LET ns1 == [ns EXCEPT ![self].children = Put(@, neighbor, weight),
                               ![self].num_children = @ + 1]
         IN  [err |-> NoError,
              nodes |-> Node_add_parent(ns1, neighbor, self, weight).nodes]

\* the result of neighbor->add_parent is dropped
Node_add_edge(ns, self, neighbor, weight) ==
    IF neighbor \in DOMAIN ns[self].children
    THEN [err |-> IF ns[self].children[neighbor] = weight THEN NoError
                  ELSE "EDGE_ALREADY_EXISTS",
          nodes |-> ns]
    ELSE IF ns[self].id = ns[neighbor].id
    THEN [err |-> "SELF_LOOP", nodes |-> ns]
    ELSE LET ns1 == [ns EXCEPT ![self].children = Put(@, neighbor, weight),
                               ![self].num_children = @ + 1]
         IN  [err |-> NoError,
              nodes |-> Node_add_parent(ns1, neighbor, self, weight).nodes]

\* Node::remove_edge leaving the neighbour's parents map alone
Node_remove_edge_children_only(ns, self, neighbor) ==
    IF neighbor \notin DOMAIN ns[self].children
    THEN [err |-> "EDGE_DOES_NOT_EXIST", nodes |-> ns]
    ELSE [err |-> NoError,
          nodes |-> [ns EXCEPT ![self].children = Erase(@, neighbor),
                               ![self].num_children = @ - 1]]

\* the result of neighbor->remove_parent is dropped
Node_remove_edge(ns, self, neighbor) ==
    IF neighbor \notin DOMAIN ns[self].children
    THEN [err |-> "EDGE_DOES_NOT_EXIST", nodes |-> ns]
    ELSE LET ns1 == [ns EXCEPT ![self].children = Erase(@, neighbor),
                               ![self].num_children = @ - 1]
         IN  [err |-> NoError,
              nodes |-> Node_remove_parent(ns1, neighbor, self).nodes]

Node_check_parent(ns, self, parent_id) ==
    \E parent \in DOMAIN ns[self].parents : ns[parent].id = parent_id

Node_change_edge_weight(ns, self, neighbor, new_weight) ==
    IF neighbor \notin DOMAIN ns[self].children
    THEN [err |-> "EDGE_DOES_NOT_EXIST", nodes |-> ns]
    ELSE [err |-> NoError,
          nodes |-> [ns EXCEPT ![self].children = Put(@, neighbor, new_weight)]]

Node_contains_edge(ns, self, neighbor) == neighbor \in DOMAIN ns[self].children

Node_is_source(ns, self) == ns[self].num_parents = 0

Node_is_sink(ns, self) == ns[self].num_children = 0

----------------------------------------------------------------------------
(* Graph objects: [nodes, version, dag_cache_valid, dag_cache_result],     *)
(* nodes being the map from id to the Node the graph owns.  The members    *)
(* are those of the class declaration; the mutators follow the contracts   *)
(* of the design document and drive the Node operations above.             *)

\* mutations a modelled graph may undergo
MaxVersion == 4

Graph_Graph ==
    [nodes |-> EmptyMap, version |-> 0, dag_cache_valid |-> FALSE,
     dag_cache_result |-> FALSE]

\* invalidate_caches that bumps the version and keeps the memoized answer
Graph_invalidate_caches_version_only(gr) == [gr EXCEPT !.version = @ + 1]

Graph_invalidate_caches(gr) ==
    [gr EXCEPT !.dag_cache_valid = FALSE, !.version = @ + 1]

Graph_add_node(gr, id) ==
    IF id \in DOMAIN gr.nodes
    THEN [err |-> "NODE_ALREADY_EXISTS", graph |-> gr]
    ELSE [err |-> NoError,
          graph |-> Graph_invalidate_caches(
                        [gr EXCEPT !.nodes = Put(@, id, Node_Node(id))])]

\* the nodes of ids inserted into the map
RECURSIVE InsertNodes(_, _, _)
InsertNodes(ns, ids, i) ==
    IF i > Len(ids) THEN ns
    ELSE InsertNodes(Put(ns, ids[i], Node_Node(ids[i])), ids, i + 1)

\* atomic: one duplicate and no node is added

Graph_add_node_set(gr, ids) ==
    IF \/ \E i \in 1..Len(ids) : ids[i] \in DOMAIN gr.nodes
       \/ \E i, j \in 1..Len(ids) : i # j /\ ids[i] = ids[j]
    THEN [err |-> "NODE_ALREADY_EXISTS", graph |-> gr]
    ELSE [err |-> NoError,
          graph |-> Graph_invalidate_caches(
                        [gr EXCEPT !.nodes = InsertNodes(@, ids, 1)])]

\* p.remove_edge(id) for every parent p in ps
RECURSIVE DetachParents(_, _, _, _)
DetachParents(ns, id, ps, i) ==
    IF i > Len(ps) THEN ns
    ELSE DetachParents(Node_remove_edge(ns, ps[i], id).nodes, id, ps, i + 1)

\* id.remove_edge(c) for every child c in cs
RECURSIVE DetachChildren(_, _, _, _)
DetachChildren(ns, id, cs, i) ==
    IF i > Len(cs) THEN ns
    ELSE DetachChildren(Node_remove_edge(ns, id, cs[i]).nodes, id, cs, i + 1)

Graph_remove_node(gr, id) ==
    IF id \notin DOMAIN gr.nodes
    THEN [err |-> "NODE_DOES_NOT_EXIST", graph |-> gr]
    ELSE LET ps == SortedIds(DOMAIN gr.nodes[id].parents)
             cs == SortedIds(DOMAIN gr.nodes[id].children)
             ns1 == DetachParents(gr.nodes, id, ps, 1)
             ns2 == DetachChildren(ns1, id, cs, 1)
         IN  [err |-> NoError,
              graph |-> Graph_invalidate_caches(
                            [gr EXCEPT !.nodes = Erase(ns2, id)])]

\* returns the count of successes
RECURSIVE Graph_remove_nodes_bulk(_, _, _)
Graph_remove_nodes_bulk(gr, ids, i) ==
    IF i > Len(ids) THEN [count |-> 0, graph |-> gr]
    ELSE LET r == Graph_remove_node(gr, ids[i])
             rest == Graph_remove_nodes_bulk(r.graph, ids, i + 1)
         IN  [count |-> rest.count + (IF r.err = NoError THEN 1 ELSE 0),
              graph |-> rest.graph]

Graph_add_edge(gr, from_id, to_id, weight) ==
    IF from_id \notin DOMAIN gr.nodes \/ to_id \notin DOMAIN gr.nodes
    THEN [err |-> "NODE_DOES_NOT_EXIST", graph |-> gr]
    ELSE IF from_id = to_id
    THEN [err |-> "SELF_LOOP_NOT_ALLOWED", graph |-> gr]
    ELSE IF Node_contains_edge(gr.nodes, from_id, to_id)
    THEN [err |-> "EDGE_ALREADY_EXISTS", graph |-> gr]
    ELSE LET r == Node_add_edge(gr.nodes, from_id, to_id, weight)
         IN  IF r.err # NoError THEN [err |-> r.err, graph |-> gr]
             ELSE [err |-> NoError,
                   graph |-> Graph_invalidate_caches([gr EXCEPT !.nodes = r.nodes])]

\* the edges are added in order; the first failure ends the call
RECURSIVE Graph_add_edge_set(_, _, _, _, _)
Graph_add_edge_set(gr, from_id, to_ids, weights, i) ==
    IF i > Len(to_ids) THEN [err |-> NoError, graph |-> gr]
    ELSE LET w == IF weights = <<>> THEN 0 ELSE weights[i]
             r == Graph_add_edge(gr, from_id, to_ids[i], w)
         IN  IF r.err # NoError THEN r
             ELSE Graph_add_edge_set(r.graph, from_id, to_ids, weights, i + 1)

Graph_remove_edge(gr, from_id, to_id) ==
    IF from_id \notin DOMAIN gr.nodes \/ to_id \notin DOMAIN gr.nodes
    THEN [err |-> "NODE_DOES_NOT_EXIST", graph |-> gr]
    ELSE LET r == Node_remove_edge(gr.nodes, from_id, to_id)
         IN  IF r.err # NoError THEN [err |-> r.err, graph |-> gr]
             ELSE [err |-> NoError,
                   graph |-> Graph_invalidate_caches([gr EXCEPT !.nodes = r.nodes])]

Graph_change_edge_weight(gr, from_id, to_id, new_weight) ==
    IF from_id \notin DOMAIN gr.nodes \/ to_id \notin DOMAIN gr.nodes
    THEN [err |-> "NODE_DOES_NOT_EXIST", graph |-> gr]
    ELSE LET r == Node_change_edge_weight(gr.nodes, from_id, to_id, new_weight)
         IN  IF r.err # NoError THEN [err |-> r.err, graph |-> gr]
             ELSE [err |-> NoError,
                   graph |-> Graph_invalidate_caches([gr EXCEPT !.nodes = r.nodes])]

Graph_set_node_tag(gr, id, new_tag) ==
    IF id \notin DOMAIN gr.nodes
    THEN [err |-> "NODE_DOES_NOT_EXIST", graph |-> gr]
    ELSE [err |-> NoError,
          graph |-> Graph_invalidate_caches([gr EXCEPT !.nodes[id].tag = new_tag])]

\* three-colour depth-first traversal: st is [cycle, colour]
RECURSIVE DfsVisit(_, _, _)
RECURSIVE DfsChildren(_, _, _, _)
DfsVisit(ns, u, st) ==
    LET st1 == [st EXCEPT !.colour[u] = "grey"]
        st2 == DfsChildren(ns, SortedIds(DOMAIN ns[u].children), 1, st1)
    IN  IF st2.cycle THEN st2 ELSE [st2 EXCEPT !.colour[u] = "black"]

DfsChildren(ns, cs, i, st) ==
    IF i > Len(cs) \/ st.cycle THEN st
    ELSE IF st.colour[cs[i]] = "grey" THEN [st EXCEPT !.cycle = TRUE]
    ELSE IF st.colour[cs[i]] = "white"
         THEN DfsChildren(ns, cs, i + 1, DfsVisit(ns, cs[i], st))
    ELSE DfsChildren(ns, cs, i + 1, st)

RECURSIVE DfsRoots(_, _, _, _)
DfsRoots(ns, us, i, st) ==
    IF i > Len(us) \/ st.cycle THEN st
    ELSE IF st.colour[us[i]] = "white"
         THEN DfsRoots(ns, us, i + 1, DfsVisit(ns, us[i], st))
    ELSE DfsRoots(ns, us, i + 1, st)

DagTraversal(ns) ==
    ~DfsRoots(ns, SortedIds(DOMAIN ns), 1,
              [cycle |-> FALSE, colour |-> [u \in DOMAIN ns |-> "white"]]).cycle

\* the memoized answer while the cache is valid, else a fresh traversal
Graph_is_dag(gr) ==
    IF gr.dag_cache_valid THEN [value |-> gr.dag_cache_result, graph |-> gr]
    ELSE LET d == DagTraversal(gr.nodes)
         IN  [value |-> d,
              graph |-> [gr EXCEPT !.dag_cache_valid = TRUE, !.dag_cache_result = d]]

\* the nodes of ids added to sub, each with the tag it has in src
RECURSIVE CopyNodes(_, _, _, _)
CopyNodes(src, sub, ids, i) ==
    IF i > Len(ids) THEN sub
    ELSE CopyNodes(src,
                   Graph_set_node_tag(Graph_add_node(sub, ids[i]).graph, ids[i],
                                      src.nodes[ids[i]].tag).graph,
                   ids, i + 1)

\* the edges of es added to sub, each with the weight it has in src
RECURSIVE CopyEdges(_, _, _, _)
CopyEdges(src, sub, es, i) ==
    IF i > Len(es) THEN sub
    ELSE CopyEdges(src,
                   Graph_add_edge(sub, es[i][1], es[i][2],
                                  src.nodes[es[i][1]].children[es[i][2]]).graph,
                   es, i + 1)

\* get_subgraph_with_tag that also retains the untagged nodes
Graph_get_subgraph_with_tag_or_untagged(gr, t) ==
    LET keep == {n \in DOMAIN gr.nodes : gr.nodes[n].tag \in {t, ""}}
        es == {e \in keep \X keep : e[2] \in DOMAIN gr.nodes[e[1]].children}
    IN  CopyEdges(gr, CopyNodes(gr, Graph_Graph, SortedIds(keep), 1),
                  SortedSeq(es), 1)

\* a new graph of the nodes tagged t and the edges between them
Graph_get_subgraph_with_tag(gr, t) ==
    LET keep == {n \in DOMAIN gr.nodes : gr.nodes[n].tag = t}
        es == {e \in keep \X keep : e[2] \in DOMAIN gr.nodes[e[1]].children}
    IN  CopyEdges(gr, CopyNodes(gr, Graph_Graph, SortedIds(keep), 1),
                  SortedSeq(es), 1)

\* what ret holds: the operation and what it returned, with the arguments of
\* the Node calls and of add_edge, remove_node and get_subgraph_with_tag
Called(op, a, b, w, err, value) ==
    [op |-> op, a |-> a, b |-> b, w |-> w, err |-> err, value |-> value]

NoCall == Called("none", "", "", 0, NoError, FALSE)

----------------------------------------------------------------------------
(* Inputs.  PairLists: every pair of untagged graphs over SmallIds with at  *)
(* most MaxEdges edges each (the two-graph calls of the tests).  NaryLists: *)
(* every list of at most MaxGraphs untagged graphs over TinyIds.  All edge  *)
(* weights are 1.                                                           *)

SmallIds == {"A", "B", "C"}
TinyIds == {"A", "B"}

MakeGraph(ns, es) ==
    [nodes |-> ns, edges |-> es, tag |-> [n \in ns |-> ""],
     weight |-> [e \in es |-> 1], version |-> Cardinality(ns) + Cardinality(es)]

EdgeSets(ns) ==
    {es \in SUBSET {e \in ns \X ns : e[1] # e[2]} : Cardinality(es) <= MaxEdges}

GraphsOver(ids) ==
    UNION {{MakeGraph(ns, es) : es \in EdgeSets(ns)} : ns \in SUBSET ids}

PairLists == [1..2 -> GraphsOver(SmallIds)]

NaryLists == UNION {[1..n -> GraphsOver(TinyIds)] : n \in 0..MaxGraphs}

InputLists == PairLists \cup NaryLists

Deadlines == {ExpiresAt(n) : n \in 0..MaxDeadline} \cup {NoTimeout}

DefaultLib == [order |-> "asc", seed |-> 0]

NoOutcome == [ok |-> FALSE, error |-> "not called", results |-> <<>>]

Init ==
    /\ graphs \in InputLists
    /\ tag = NoTag
    /\ type = "none"
    /\ deadline = NoTimeout
    /\ pc = "ready"
    /\ call = "none"
    /\ outcome = NoOutcome
    /\ outcome2 = NoOutcome
    /\ path = "none"
    /\ cliques = <<>>
    /\ matching = {}
    /\ types = <<>>
    /\ log = <<>>
    /\ entries = <<>>
    /\ G = Graph_Graph
    /\ ret = NoCall
    /\ stdlib = DefaultLib

\* a caller invokes BronKerboschSerial::find on the list
BKFind ==
    /\ pc = "ready"
    /\ \E dl \in Deadlines :
           LET r == BronKerboschSerial_find(graphs, NoTag, dl, stdlib)
           IN  /\ deadline' = dl
               /\ outcome' = r.outcome
               /\ path' = r.path
               /\ cliques' = r.cliques
               /\ entries' = r.entries
    /\ call' = "BronKerboschSerial::find"
    /\ pc' = "done"
    /\ UNCHANGED <<G, ret, graphs, tag, type, outcome2, matching, stdlib,
                 types, log>>

\* a caller invokes KPT::find on the list
KPTFind ==
    /\ pc = "ready"
    /\ outcome' = KPT_find(graphs, tag)
    /\ matching' = KPT_find_matching(graphs, tag)
    /\ entries' = KPT_find_calls(graphs, tag)
    /\ call' = "KPT::find"
    /\ pc' = "done"
    /\ UNCHANGED <<G, ret, graphs, tag, type, deadline, path, cliques, outcome2,
                 stdlib, types, log>>

Next == BKFind \/ KPTFind

Spec == Init /\ [][Next]_vars

\* the caller invokes the same engine a second time on the same list; the
\* second call has its own clock
FindAgain ==
    /\ pc = "done"
    /\ call \in {"BronKerboschSerial::find", "KPT::find"}
    /\ IF call = "BronKerboschSerial::find"
       THEN \E dl \in Deadlines :
                outcome2' = BronKerboschSerial_find(graphs, tag, dl, stdlib).outcome
       ELSE outcome2' = KPT_find(graphs, tag)
    /\ pc' = "again"
    /\ UNCHANGED <<G, ret, graphs, tag, type, deadline, call, outcome, path, cliques,
                   matching, types, log, entries, stdlib>>

MaxExpiry == 4

TimedDeadlines == {ExpiresAt(n) : n \in 0..MaxExpiry} \cup {NoTimeout}

\* BronKerboschSerial::find, the deadline passing before any of the first
\* recursive calls or not at all
BKFindTimed ==
    /\ pc = "ready"
    /\ \E dl \in TimedDeadlines :
           LET r == BronKerboschSerial_find(graphs, NoTag, dl, stdlib)
           IN  /\ deadline' = dl
               /\ outcome' = r.outcome
               /\ path' = r.path
               /\ cliques' = r.cliques
               /\ entries' = r.entries
    /\ call' = "BronKerboschSerial::find"
    /\ pc' = "done"
    /\ UNCHANGED <<G, ret, graphs, tag, type, outcome2, matching, stdlib,
                 types, log>>

NextTimed == BKFindTimed

InitTimed == Init /\ graphs \in PairLists

SpecTimed == InitTimed /\ [][NextTimed]_vars

NextAgain == BKFind \/ KPTFind \/ FindAgain

SpecAgain == Init /\ [][NextAgain]_vars

----------------------------------------------------------------------------
(* Lists around the size gate of BronKerboschSerial::find *)

GateMaxNodes == 11
GateSizes == (GateMaxNodes - 2)..GateMaxNodes

\* the ids n01 .. n<k>
GateIds(k) == {IdOrder[i] : i \in 4..(3 + k)}

Complete(k) == MakeGraph(GateIds(k), {e \in GateIds(k) \X GateIds(k) : IdLess(e[1], e[2])})
Edgeless(k) == MakeGraph(GateIds(k), {})
Star(k) == MakeGraph(GateIds(k), {<<"n01", x>> : x \in GateIds(k) \ {"n01"}})

GateGraphs == UNION {{Complete(k), Edgeless(k), Star(k)} : k \in GateSizes}
GateLists == [1..3 -> GateGraphs]

\* a one-node graph beside a graph of 11 or 12 nodes with at most one edge:
\* a product that passes the gate and has cliques of more than ten nodes
WideSizes == GateMaxNodes..(GateMaxNodes + 1)

WideLists ==
    UNION {{<<MakeGraph({"A"}, {}), MakeGraph(GateIds(k), es)>> :
               es \in {{}} \cup {{e} : e \in {d \in GateIds(k) \X GateIds(k) :
                                                IdLess(d[1], d[2])}}} :
           k \in WideSizes}

InitWide ==
    /\ graphs \in WideLists
    /\ tag = NoTag
    /\ type = "none"
    /\ deadline = NoTimeout
    /\ pc = "ready"
    /\ call = "none"
    /\ outcome = NoOutcome
    /\ outcome2 = NoOutcome
    /\ path = "none"
    /\ cliques = <<>>
    /\ matching = {}
    /\ types = <<>>
    /\ log = <<>>
    /\ entries = <<>>
    /\ G = Graph_Graph
    /\ ret = NoCall
    /\ stdlib = DefaultLib

SpecWide == InitWide /\ [][BKFind]_vars

\* what the standard library fixes: the iteration order of the node table
\* and the string hash
Libs == [order : {"asc", "desc"}, seed : 0..1]

InitGate ==
    /\ graphs \in GateLists
    /\ tag = NoTag
    /\ type = "none"
    /\ deadline = NoTimeout
    /\ pc = "ready"
    /\ call = "none"
    /\ outcome = NoOutcome
    /\ outcome2 = NoOutcome
    /\ path = "none"
    /\ cliques = <<>>
    /\ matching = {}
    /\ types = <<>>
    /\ log = <<>>
    /\ entries = <<>>
    /\ G = Graph_Graph
    /\ ret = NoCall
    /\ stdlib \in Libs

\* BronKerboschSerial::find on a list around the gate, the deadline passing
\* before the first recursive call
GateFind ==
    /\ pc = "ready"
    /\ LET r == BronKerboschSerial_find(graphs, NoTag, ExpiresAt(0), stdlib)
       IN  /\ deadline' = ExpiresAt(0)
           /\ outcome' = r.outcome
           /\ path' = r.path
           /\ cliques' = r.cliques
           /\ entries' = r.entries
    /\ call' = "BronKerboschSerial::find"
    /\ pc' = "done"
    /\ UNCHANGED <<G, ret, graphs, tag, type, outcome2, matching, stdlib,
                 types, log>>

NextGate == GateFind

SpecGate == InitGate /\ [][NextGate]_vars

----------------------------------------------------------------------------
(* Dispatcher: MCISAlgorithm *)

\* enum class AlgorithmType and its integer values
AlgorithmTypes == {"BRON_KERBOSCH_SERIAL", "KPT"}
EnumValue(ty) == IF ty = "BRON_KERBOSCH_SERIAL" THEN 0 ELSE 1

\* the engine list the constructor builds
algorithms == <<"BronKerboschSerial">>

\* Graph::get_subgraph_with_tag: the nodes whose tag equals t, with their
\* tags, and the edges between them
get_subgraph_with_tag(g, t) ==
    LET keep == {n \in g.nodes : get_tag(g, n) = t}
        es == {e \in g.edges : e[1] \in keep /\ e[2] \in keep}
    IN  [nodes |-> keep, edges |-> es, tag |-> [n \in keep |-> g.tag[n]],
         weight |-> [e \in es |-> g.weight[e]],
         version |-> Cardinality(keep) + Cardinality(es)]

\* the virtual call engine->find(gs, t)
EngineFind(engine, gs, t, dl, lib) ==
    IF engine = "BronKerboschSerial"
    THEN LET r == BronKerboschSerial_find(gs, t, dl, lib)
         IN  [call |-> "BronKerboschSerial::find", outcome |-> r.outcome,
              path |-> r.path, cliques |-> r.cliques]
    ELSE [call |-> "KPT::find", outcome |-> KPT_find(gs, t), path |-> "none",
          cliques |-> <<>>]

\* the process dies in the call through the pointer read past the list
Crashed ==
    [call |-> "none", outcome |-> [ok |-> FALSE, error |-> "<crash>", results |-> <<>>],
     path |-> "none", cliques |-> <<>>]

\* algorithms[index] with index >= algorithms.size(): the read is past the
\* end of the vector, and the call goes wherever the value read points
UndefinedCall(gs, t, dl, lib) ==
    {Crashed} \cup {EngineFind(e, gs, t, dl, lib) : e \in {"BronKerboschSerial", "KPT"}}

\* MCISAlgorithm::run(graphs, type, tag): the outcomes the call can have
MCISAlgorithm_run(gs, ty, t, dl, lib) ==
    LET inputs == IF t # NoTag
                  THEN [i \in 1..Len(gs) |-> get_subgraph_with_tag(gs[i], t)]
                  ELSE gs
        index == EnumValue(ty)
    IN  IF index < Len(algorithms)
        THEN {EngineFind(algorithms[index + 1], inputs, t, dl, lib)}
        ELSE UndefinedCall(inputs, t, dl, lib)

MaxRunGraphs == 2

\* graphs over TinyIds whose nodes carry the tag "" or "t"
TaggedGraphs ==
    UNION {{[nodes |-> ns, edges |-> es, tag |-> tg, weight |-> [e \in es |-> 1],
             version |-> Cardinality(ns) + Cardinality(es)
                         + Cardinality({n \in ns : tg[n] # ""})] :
                es \in EdgeSets(ns), tg \in [ns -> {"", "t"}]} :
           ns \in SUBSET TinyIds}

RunLists == UNION {[1..n -> TaggedGraphs] : n \in 0..MaxRunGraphs}

InitRun ==
    /\ graphs \in RunLists
    /\ tag \in {NoTag, "t"}
    /\ type = "none"
    /\ deadline = NoTimeout
    /\ pc = "ready"
    /\ call = "none"
    /\ outcome = NoOutcome
    /\ outcome2 = NoOutcome
    /\ path = "none"
    /\ cliques = <<>>
    /\ matching = {}
    /\ types = <<>>
    /\ log = <<>>
    /\ entries = <<>>
    /\ G = Graph_Graph
    /\ ret = NoCall
    /\ stdlib = DefaultLib

\* run filtering the caller's graphs in place instead of projecting them
\* into temporaries
RunInPlace ==
    /\ pc = "ready"
    /\ \E ty \in AlgorithmTypes, dl \in Deadlines :
           \E r \in MCISAlgorithm_run(graphs, ty, tag, dl, stdlib) :
               /\ type' = ty
               /\ deadline' = dl
               /\ call' = r.call
               /\ outcome' = r.outcome
               /\ path' = r.path
               /\ cliques' = r.cliques
    /\ graphs' = IF tag # NoTag
                 THEN [i \in 1..Len(graphs) |-> get_subgraph_with_tag(graphs[i], tag)]
                 ELSE graphs
    /\ pc' = "ran"
    /\ UNCHANGED <<G, ret, tag, outcome2, matching, entries, stdlib, types, log>>

\* a caller invokes run(graphs, ty, tag)
Run ==
    /\ pc = "ready"
    /\ \E ty \in AlgorithmTypes, dl \in Deadlines :
           \E r \in MCISAlgorithm_run(graphs, ty, tag, dl, stdlib) :
               /\ type' = ty
               /\ deadline' = dl
               /\ call' = r.call
               /\ outcome' = r.outcome
               /\ path' = r.path
               /\ cliques' = r.cliques
    /\ pc' = "ran"
    /\ UNCHANGED <<G, ret, graphs, tag, outcome2, matching, entries, stdlib,
                 types, log>>

\* the caller projects the graphs itself and invokes run again without a tag
RunProjected ==
    /\ pc = "ran"
    /\ LET projections == IF tag # NoTag
                          THEN [i \in 1..Len(graphs) |->
                                    get_subgraph_with_tag(graphs[i], tag)]
                          ELSE graphs
       IN  \E dl \in Deadlines :
               \E r \in MCISAlgorithm_run(projections, type, NoTag, dl, stdlib) :
                   outcome2' = r.outcome
    /\ pc' = "done"
    /\ UNCHANGED <<G, ret, graphs, tag, type, deadline, call, outcome, path, cliques, matching,
                 entries, stdlib,
                 types, log>>

MaxTypes == 2

TypeLists == UNION {[1..n -> AlgorithmTypes] : n \in 0..MaxTypes}

\* a caller invokes run_many(graphs, ts, tag); with no type the loop is not
\* entered and the empty list of result lists is returned
RunMany ==
    /\ pc = "ready"
    /\ \E ts \in TypeLists :
           /\ types' = ts
           /\ IF ts = <<>>
              THEN outcome' = Success(<<>>) /\ pc' = "done"
              ELSE UNCHANGED outcome /\ pc' = "many"
    /\ call' = "MCISAlgorithm::run_many"
    /\ log' = <<>>
    /\ UNCHANGED <<G, ret, graphs, tag, type, deadline, path, cliques, outcome2, matching,
                   entries, stdlib>>

\* run_many going on with the next type after a call of run that failed
RunManyStepNoShortCircuit ==
    /\ pc = "many"
    /\ \E dl \in Deadlines :
           \E r \in MCISAlgorithm_run(graphs, types[Len(log) + 1], tag, dl, stdlib) :
               /\ log' = Append(log, [type |-> types[Len(log) + 1],
                                      call |-> r.call, outcome |-> r.outcome])
               /\ IF Len(log') = Len(types)
                  THEN /\ outcome' = Success([j \in 1..Len(log') |->
                                                  log'[j].outcome.results])
                       /\ pc' = "done"
                  ELSE UNCHANGED outcome /\ pc' = "many"
    /\ UNCHANGED <<G, ret, graphs, tag, type, deadline, call, path, cliques, outcome2,
                   matching, types, entries, stdlib>>

\* one iteration of run_many's loop: run for the next type; its error is
\* returned at once, its results are pushed, and after the last type the
\* collected result lists are returned
RunManyStep ==
    /\ pc = "many"
    /\ \E dl \in Deadlines :
           \E r \in MCISAlgorithm_run(graphs, types[Len(log) + 1], tag, dl, stdlib) :
               /\ log' = Append(log, [type |-> types[Len(log) + 1],
                                      call |-> r.call, outcome |-> r.outcome])
               /\ IF ~r.outcome.ok
                  THEN /\ outcome' = [ok |-> FALSE, error |-> r.outcome.error,
                                      results |-> <<>>]
                       /\ pc' = "done"
                  ELSE IF Len(log') = Len(types)
                  THEN /\ outcome' = Success([j \in 1..Len(log') |->
                                                  log'[j].outcome.results])
                       /\ pc' = "done"
                  ELSE UNCHANGED outcome /\ pc' = "many"
    /\ UNCHANGED <<G, ret, graphs, tag, type, deadline, call, path, cliques, outcome2,
                   matching, types, entries, stdlib>>

NextRun == Run \/ RunProjected

SpecRun == InitRun /\ [][NextRun]_vars

\* callers of run and of run_many
SpecRunMany == InitRun /\ [][Run \/ RunMany \/ RunManyStep]_vars

\* a caller of KPT::find itself, on tagged graphs with or without a tag
SpecKPT == InitRun /\ [][KPTFind]_vars

----------------------------------------------------------------------------
(* Callers of the Node and Graph operations.  SpecNode: a client holding   *)
(* the Nodes of NodePair calls the edge operations of Node on them.        *)
(* SpecGraph: a client of one Graph calls its mutators and is_dag.         *)

\* the engines' variables, idle while a client works on G
EngineIdle ==
    /\ graphs = <<>>
    /\ tag = NoTag
    /\ type = "none"
    /\ deadline = NoTimeout
    /\ call = "none"
    /\ outcome = NoOutcome
    /\ outcome2 = NoOutcome
    /\ path = "none"
    /\ cliques = <<>>
    /\ matching = {}
    /\ types = <<>>
    /\ log = <<>>
    /\ entries = <<>>
    /\ stdlib = DefaultLib

engineVars == <<graphs, tag, type, deadline, pc, call, outcome, path, cliques,
                outcome2, matching, types, log, entries, stdlib>>

InitNode ==
    /\ EngineIdle
    /\ pc = "node"
    /\ G = [Graph_Graph EXCEPT !.nodes = [p \in NodePair |-> Node_Node(p)]]
    /\ ret = NoCall

NodeAddEdge ==
    /\ pc = "node"
    /\ \E m \in NodePair, n \in NodePair, w \in Weights :
           LET r == Node_add_edge(G.nodes, m, n, w)
           IN  /\ G' = [G EXCEPT !.nodes = r.nodes]
               /\ ret' = Called("Node::add_edge", m, n, w, r.err, FALSE)
    /\ UNCHANGED engineVars

NodeRemoveEdge ==
    /\ pc = "node"
    /\ \E m \in NodePair, n \in NodePair :
           LET r == Node_remove_edge(G.nodes, m, n)
           IN  /\ G' = [G EXCEPT !.nodes = r.nodes]
               /\ ret' = Called("Node::remove_edge", m, n, 0, r.err, FALSE)
    /\ UNCHANGED engineVars

NodeChangeEdgeWeight ==
    /\ pc = "node"
    /\ \E m \in NodePair, n \in NodePair, w \in Weights :
           LET r == Node_change_edge_weight(G.nodes, m, n, w)
           IN  /\ G' = [G EXCEPT !.nodes = r.nodes]
               /\ ret' = Called("Node::change_edge_weight", m, n, w, r.err, FALSE)
    /\ UNCHANGED engineVars

NextNode == NodeAddEdge \/ NodeRemoveEdge \/ NodeChangeEdgeWeight

SpecNode == InitNode /\ [][NextNode]_vars

InitGraph ==
    /\ EngineIdle
    /\ pc = "graph"
    /\ G = Graph_Graph
    /\ ret = NoCall

\* the id vectors a client hands to the bulk operations
IdVectors == {SortedIds(S) : S \in {T \in SUBSET NodePtrs : Cardinality(T) >= 2}}

MayMutate == pc = "graph" /\ G.version < MaxVersion

AddNode ==
    /\ MayMutate
    /\ \E id \in NodePtrs :
           LET r == Graph_add_node(G, id)
           IN  /\ G' = r.graph
               /\ ret' = Called("add_node", "", "", 0, r.err, FALSE)
    /\ UNCHANGED engineVars

AddNodeSet ==
    /\ MayMutate
    /\ \E ids \in IdVectors :
           LET r == Graph_add_node_set(G, ids)
           IN  /\ G' = r.graph
               /\ ret' = Called("add_node_set", "", "", 0, r.err, FALSE)
    /\ UNCHANGED engineVars

RemoveNode ==
    /\ MayMutate
    /\ \E id \in NodePtrs :
           LET r == Graph_remove_node(G, id)
               \* the edges incident to id when the call is made
               incident == IF id \in DOMAIN G.nodes
                           THEN Cardinality(DOMAIN G.nodes[id].children)
                                + Cardinality(DOMAIN G.nodes[id].parents)
                           ELSE 0
           IN  /\ G' = r.graph
               /\ ret' = Called("remove_node", id, "", incident, r.err, FALSE)
    /\ UNCHANGED engineVars

RemoveNodesBulk ==
    /\ MayMutate
    /\ \E ids \in IdVectors :
           LET r == Graph_remove_nodes_bulk(G, ids, 1)
           IN  /\ G' = r.graph
               /\ ret' = Called("remove_nodes_bulk", "", "", r.count, NoError, FALSE)
    /\ UNCHANGED engineVars

AddEdge ==
    /\ MayMutate
    /\ \E u \in NodePtrs, v \in NodePtrs, w \in Weights :
           LET r == Graph_add_edge(G, u, v, w)
           IN  /\ G' = r.graph
               /\ \E e \in Returned(r.err) :
                      ret' = Called("add_edge", u, v, w, e, FALSE)
    /\ UNCHANGED engineVars

AddEdgeSet ==
    /\ MayMutate
    /\ \E u \in NodePtrs, vs \in IdVectors, w \in 0..1 :
           LET weights == IF w = 0 THEN <<>> ELSE [i \in 1..Len(vs) |-> w]
               r == Graph_add_edge_set(G, u, vs, weights, 1)
           IN  /\ G' = r.graph
               /\ \E e \in Returned(r.err) :
                      ret' = Called("add_edge_set", "", "", 0, e, FALSE)
    /\ UNCHANGED engineVars

RemoveEdge ==
    /\ MayMutate
    /\ \E u \in NodePtrs, v \in NodePtrs :
           LET r == Graph_remove_edge(G, u, v)
           IN  /\ G' = r.graph
               /\ ret' = Called("remove_edge", "", "", 0, r.err, FALSE)
    /\ UNCHANGED engineVars

ChangeEdgeWeight ==
    /\ MayMutate
    /\ \E u \in NodePtrs, v \in NodePtrs, w \in Weights :
           LET r == Graph_change_edge_weight(G, u, v, w)
           IN  /\ G' = r.graph
               /\ ret' = Called("change_edge_weight", "", "", 0, r.err, FALSE)
    /\ UNCHANGED engineVars

SetNodeTag ==
    /\ MayMutate
    /\ \E id \in NodePtrs, t \in NodeTags :
           LET r == Graph_set_node_tag(G, id, t)
           IN  /\ G' = r.graph
               /\ ret' = Called("set_node_tag", "", "", 0, r.err, FALSE)
    /\ UNCHANGED engineVars

IsDag ==
    /\ pc = "graph"
    /\ LET r == Graph_is_dag(G)
       IN  /\ G' = r.graph
           /\ ret' = Called("is_dag", "", "", 0, NoError, r.value)
    /\ UNCHANGED engineVars

GetSubgraphWithTag ==
    /\ pc = "graph"
    /\ \E t \in NodeTags :
           ret' = Called("get_subgraph_with_tag", t, "", 0, NoError,
                         Graph_get_subgraph_with_tag(G, t))
    /\ UNCHANGED G
    /\ UNCHANGED engineVars

NextGraph ==
    \/ AddNode \/ AddNodeSet \/ RemoveNode \/ RemoveNodesBulk
    \/ AddEdge \/ AddEdgeSet \/ RemoveEdge \/ ChangeEdgeWeight
    \/ SetNodeTag \/ IsDag \/ GetSubgraphWithTag

SpecGraph == InitGraph /\ [][NextGraph]_vars

----------------------------------------------------------------------------
(* KPT::is_reachable on its own: one graph over SmallIds, cyclic ones        *)
(* included, queried with every pair of ids, absent ones included           *)

InitReach ==
    /\ graphs \in {<<g>> : g \in GraphsOver(SmallIds)}
    /\ tag = NoTag
    /\ type = "none"
    /\ deadline = NoTimeout
    /\ pc = "reach"
    /\ call = "none"
    /\ outcome = NoOutcome
    /\ outcome2 = NoOutcome
    /\ path = "none"
    /\ cliques = <<>>
    /\ matching = {}
    /\ types = <<>>
    /\ log = <<>>
    /\ entries = <<>>
    /\ stdlib = DefaultLib
    /\ G = Graph_Graph
    /\ ret = NoCall

IsReachable ==
    /\ pc = "reach"
    /\ \E start_node_id \in SmallIds, end_node_id \in SmallIds :
           ret' = Called("KPT::is_reachable", start_node_id, end_node_id, 0, NoError,
                         is_reachable(graphs[1], start_node_id, end_node_id))
    /\ UNCHANGED G
    /\ UNCHANGED engineVars

SpecReach == InitReach /\ [][IsReachable]_vars

----------------------------------------------------------------------------
(* Properties *)

BKDone == pc = "done" /\ call = "BronKerboschSerial::find"
KPTDone == pc = "done" /\ call = "KPT::find"

AllNonEmpty == \A i \in 1..Len(graphs) : get_num_nodes(graphs[i]) >= 1

\* the nodes reachable from the set S along children edges, S included
RECURSIVE Closure(_, _)
Closure(g, S) ==
    LET T == S \cup {e[2] : e \in {d \in g.edges : d[1] \in S}}
    IN  IF T = S THEN S ELSE Closure(g, T)

Reaches(g, a, b) == b \in Closure(g, {a})

\* not conflict(p, q), as the matching's independence is stated
NonConflicting(p, q) ==
    /\ p # q
    /\ \A i \in 1..Len(graphs) :
           /\ p[i] # q[i]
           /\ ~Reaches(graphs[i], p[i], q[i])
           /\ ~Reaches(graphs[i], q[i], p[i])

\* the product of the input graphs' node counts
RECURSIVE NodeCountProduct(_, _)
NodeCountProduct(gs, i) ==
    IF i > Len(gs) THEN 1 ELSE get_num_nodes(gs[i]) * NodeCountProduct(gs, i + 1)

Triangle == MakeGraph({"A", "B", "C"}, {<<"A", "B">>, <<"B", "C">>, <<"A", "C">>})
ArrowAB == MakeGraph({"A", "B"}, {<<"A", "B">>})
IsolatedAB == MakeGraph({"A", "B"}, {})

\* C2: Bron-Kerbosch on (g, ..., g), N >= 2, g with at least one node, the
\* search completing in time: the largest result graph has exactly |V(g)|
\* nodes.
C2_IdentitySize ==
    (/\ BKDone
     /\ ~deadline.expires
     /\ Len(graphs) >= 2
     /\ \A i \in 1..Len(graphs) : graphs[i] = graphs[1]
     /\ AllNonEmpty)
    => /\ outcome.ok
       /\ outcome.results # <<>>
       /\ \A k \in 1..Len(outcome.results) :
              get_num_nodes(outcome.results[k]) <= get_num_nodes(graphs[1])
       /\ \E k \in 1..Len(outcome.results) :
              get_num_nodes(outcome.results[k]) = get_num_nodes(graphs[1])

\* C3: in a KPT result any two distinct hyperedges whose joined ids are
\* result nodes are non-conflicting (different and, in every graph, on
\* different nodes neither of which reaches the other), and the result has
\* no more nodes than any input graph.
C3_KPTMatchingIndependent ==
    (KPTDone /\ outcome.ok)
    => LET result == outcome.results[1]
           H == {p \in ProductNodes(graphs) : Join(p) \in result.nodes}
       IN  /\ \A p \in H : \A q \in H : p # q => NonConflicting(p, q)
           /\ \A i \in 1..Len(graphs) :
                  get_num_nodes(result) <= get_num_nodes(graphs[i])

\* KPT ran on (A->B, {A,B} without edges) and kept A_A without B_B
C3_Witness ==
    /\ KPTDone
    /\ graphs = <<ArrowAB, IsolatedAB>>
    /\ outcome.ok
    /\ "A_A" \in outcome.results[1].nodes
    /\ "B_B" \notin outcome.results[1].nodes

\* C6: BronKerboschSerial::find fails with EMPTY_GRAPH and no result when a
\* graph has zero nodes, KPT::find when the list is empty or a graph has zero
\* nodes; on a (for KPT: non-empty) list of graphs with at least one node
\* each, neither returns an error.
C6_EmptyGraphPrecondition ==
    LET failed == /\ ~outcome.ok
                  /\ outcome.error = "EMPTY_GRAPH"
                  /\ outcome.results = <<>>
    IN  /\ BKDone => IF AllNonEmpty THEN outcome.ok ELSE failed
        /\ KPTDone => IF graphs # <<>> /\ AllNonEmpty THEN outcome.ok ELSE failed

\* KPT::find refused a list whose second graph has no node
C6_Witness ==
    /\ KPTDone
    /\ Len(graphs) = 2
    /\ get_num_nodes(graphs[1]) >= 1
    /\ get_num_nodes(graphs[2]) = 0
    /\ outcome.error = "EMPTY_GRAPH"

S1Done == BKDone /\ graphs = <<Triangle, Triangle>> /\ ~deadline.expires

MaximumCliques ==
    LET big == {k \in 1..Len(cliques) :
                   \A j \in 1..Len(cliques) :
                       Cardinality(cliques[j]) <= Cardinality(cliques[k])}
    IN  SelectSeq(cliques, LAMBDA c :
                      \E k \in big : Cardinality(c) = Cardinality(cliques[k]))

C8_MixedCliques ==
    /\ BKDone
    /\ \E j \in 1..Len(cliques) : \E k \in 1..Len(cliques) :
           Cardinality(cliques[j]) < Cardinality(cliques[k])
    /\ \E k \in 1..Len(outcome.results) : outcome.results[k].edges # {}

S4Done == KPTDone /\ graphs = <<ArrowAB, ArrowAB>>

\* C10: for g1 = g2 = A->B the hyperedges (A,A) and (B,B) are not
\* conflicting, and the KPT result may hold both A_A and B_B.
C10_S4_NonConflicting ==
    S4Done => ~are_conflicting(<<"A", "A">>, <<"B", "B">>, graphs)

\* C10, as amended: for g1 = g2 = A->B the hyperedges (A,A) and (B,B) are
\* conflicting, B being reachable from A, and the KPT result holds a single
\* node, never both A_A and B_B.
C10_S4_Conflicting ==
    S4Done
    => /\ are_conflicting(<<"A", "A">>, <<"B", "B">>, graphs)
       /\ outcome.ok
       /\ Len(outcome.results) = 1
       /\ Cardinality(outcome.results[1].nodes) = 1
       /\ ~({"A_A", "B_B"} \subseteq outcome.results[1].nodes)

C10_Witness == S4Done /\ outcome.ok /\ outcome.results[1].nodes = {"A_A"}

\* C1: Bron-Kerbosch on a non-empty list of graphs with at least one node
\* each succeeds with at least one result graph, and every result graph has
\* at least one node.
C1_NonEmptyOut ==
    (BKDone /\ graphs # <<>> /\ AllNonEmpty)
    => /\ outcome.ok
       /\ Len(outcome.results) >= 1
       /\ \A k \in 1..Len(outcome.results) : get_num_nodes(outcome.results[k]) >= 1

\* C9: with more than 1000 product nodes BronKerboschSerial::find returns
\* what find_simple_mcis returns, at most one graph of at most 10 nodes,
\* without enumerating cliques; with at most 1000 it enumerates cliques.
C9_SizeGate ==
    (BKDone /\ AllNonEmpty)
    => IF NodeCountProduct(graphs, 1) > 1000
       THEN /\ path = "find_simple_mcis"
            /\ cliques = <<>>
            /\ outcome.ok
            /\ Len(outcome.results) <= 1
            /\ \A k \in 1..Len(outcome.results) :
                   get_num_nodes(outcome.results[k]) <= 10
       ELSE path = "find_maximal_cliques_with_timeout"

\* the first graph has 11 nodes, all matched, and the result stops at 10
C9_Witness ==
    /\ BKDone
    /\ NodeCountProduct(graphs, 1) > 1000
    /\ get_num_nodes(graphs[1]) = 11
    /\ Len(outcome.results) = 1
    /\ get_num_nodes(outcome.results[1]) = 10

\* a list of exactly 1000 product nodes went to clique enumeration
C9_AtThreshold ==
    /\ BKDone
    /\ NodeCountProduct(graphs, 1) = 1000
    /\ path = "find_maximal_cliques_with_timeout"

SameOutcome(a, b) ==
    /\ a.ok = b.ok
    /\ a.error = b.error
    /\ Len(a.results) = Len(b.results)
    /\ \A k \in 1..Len(a.results) :
           /\ a.results[k].nodes = b.results[k].nodes
           /\ a.results[k].edges = b.results[k].edges

\* C4: run(graphs, algo, tag) and run(projections of graphs on tag, algo,
\* no tag) return the same outcome: the same error, or result graphs with
\* the same nodes and edges.
C4_TagCommutes ==
    (pc = "done" /\ type \in AlgorithmTypes) => SameOutcome(outcome, outcome2)

\* C5: run with a type that has no installed engine returns
\* INVALID_ALGORITHM and invokes no engine; with a backed type it invokes
\* exactly that type's engine.
C5_AlgorithmValidation ==
    (pc \in {"ran", "done"} /\ type \in AlgorithmTypes)
    => /\ type = "BRON_KERBOSCH_SERIAL" => call = "BronKerboschSerial::find"
       /\ type = "KPT" =>
              \/ call = "KPT::find"
              \/ /\ call = "none"
                 /\ ~outcome.ok
                 /\ outcome.error = "INVALID_ALGORITHM"

RunManyCalled == call = "MCISAlgorithm::run_many"

\* C12: run_many calls run once per type, in list order, and no more once a
\* call has failed; when every call succeeded it returns one result list per
\* type, the j-th being what the j-th call returned; when a call failed it
\* returns that call's error and no result.
C12_RunManyOrder ==
    RunManyCalled
    => /\ Len(log) <= Len(types)
       /\ \A j \in 1..Len(log) : log[j].type = types[j]
       /\ \A j \in 1..(Len(log) - 1) : log[j].outcome.ok
       /\ pc = "many" =>
              /\ Len(log) < Len(types)
              /\ \A j \in 1..Len(log) : log[j].outcome.ok
       /\ pc = "done" =>
              IF \A j \in 1..Len(log) : log[j].outcome.ok
              THEN /\ Len(log) = Len(types)
                   /\ outcome.ok
                   /\ Len(outcome.results) = Len(types)
                   /\ \A j \in 1..Len(types) :
                          outcome.results[j] = log[j].outcome.results
              ELSE /\ ~outcome.ok
                   /\ outcome.error = log[Len(log)].outcome.error
                   /\ outcome.results = <<>>

\* the first of two Bron-Kerbosch runs failed on a graph without nodes and
\* run_many returned its error without making the second
C12_Witness ==
    /\ RunManyCalled
    /\ pc = "done"
    /\ types = <<"BRON_KERBOSCH_SERIAL", "BRON_KERBOSCH_SERIAL">>
    /\ Len(log) = 1
    /\ outcome.error = "EMPTY_GRAPH"

\* two runs succeeded and both result lists came back
C12_BothReturned ==
    /\ RunManyCalled
    /\ pc = "done"
    /\ Len(types) = 2
    /\ outcome.ok
    /\ Len(outcome.results) = 2
    /\ outcome.results[1] # <<>>

\* C13: two invocations of the same engine on the same graphs and tag
\* return the same result graphs, in the same order, with the same nodes and
\* edges, wherever the deadline falls in either invocation.
C13_Determinism ==
    pc = "again" => SameOutcome(outcome, outcome2)

Enumerated == BKDone /\ path = "find_maximal_cliques_with_timeout"

\* the entries that recorded a clique
Recorded == {j \in 1..Len(entries) : entries[j].recorded}

\* the same search with no deadline
FullSearch ==
    find_maximal_cliques_with_timeout(ProductNodes(graphs), Adjacency(graphs),
                                      NoTimeout)

\* C14: every recursive call tests the deadline on entry; from the first
\* call that finds it passed on, every call returns without recording; what
\* was recorded before is returned, in the order recorded, and is what the
\* search without deadline records in its first calls; find still succeeds;
\* when nothing was recorded and the product graph has nodes, exactly one
\* clique of one node is returned.
C14_Timeout ==
    Enumerated
    => /\ outcome.ok
       /\ \A j \in 1..Len(entries) :
              entries[j].expired <=> (deadline.expires /\ j - 1 >= deadline.at)
       /\ \A j \in 1..Len(entries) : entries[j].expired => ~entries[j].recorded
       /\ \A j \in 1..Len(entries) : \A k \in j..Len(entries) :
              entries[j].expired => ~entries[k].recorded
       /\ IF Recorded # {}
          THEN /\ Len(cliques) = Cardinality(Recorded)
               /\ cliques = SubSeq(FullSearch.cliques, 1, Len(cliques))
          ELSE IF graphs # <<>>
          THEN /\ Len(cliques) = 1
               /\ Cardinality(cliques[1]) = 1
               /\ cliques[1] \subseteq ProductNodes(graphs)
          ELSE cliques = <<>>

\* a clique was recorded, then the deadline passed and cut the search short
C14_Witness ==
    /\ Enumerated
    /\ \E j \in 1..Len(entries) : \E k \in 1..Len(entries) :
           j < k /\ entries[j].recorded /\ entries[k].expired
    /\ Len(cliques) < Len(FullSearch.cliques)

\* the deadline passed before anything was recorded: the one-node fallback
C14_Fallback ==
    /\ Enumerated
    /\ deadline.expires
    /\ Recorded = {}
    /\ Len(cliques) = 1

MirrorsAgree(ns) ==
    \A m \in DOMAIN ns, n \in DOMAIN ns :
        /\ n \in DOMAIN ns[m].children <=> m \in DOMAIN ns[n].parents
        /\ n \in DOMAIN ns[m].children /\ m \in DOMAIN ns[n].parents
               => ns[m].children[n] = ns[n].parents[m]

\* C16: after every sequence of Node::add_edge, Node::remove_edge and
\* Node::change_edge_weight calls on a set of nodes, m.children[n] = w if and
\* only if n.parents[m] = w, for all nodes m, n and weights w.
C16_MirrorInvariant == pc = "node" => MirrorsAgree(G.nodes)

\* every node a children or parents map refers to is in the graph, and the
\* counters are the sizes of the maps
ReferencesPresent(ns) ==
    \A n \in DOMAIN ns :
        /\ DOMAIN ns[n].children \subseteq DOMAIN ns
        /\ DOMAIN ns[n].parents \subseteq DOMAIN ns
        /\ ns[n].num_children = Cardinality(DOMAIN ns[n].children)
        /\ ns[n].num_parents = Cardinality(DOMAIN ns[n].parents)

\* C17: after any sequence of Graph mutators every node referenced from a
\* children or parents map is present in the graph and every counter is the
\* size of its map; after a successful remove_node(id) the node is gone and
\* no remaining node has id among its children or parents.
C17_ReferentialIntegrity ==
    pc = "graph" =>
        /\ ReferencesPresent(G.nodes)
        /\ ret.op = "remove_node" /\ ret.err = NoError =>
               /\ ret.a \notin DOMAIN G.nodes
               /\ \A n \in DOMAIN G.nodes :
                      /\ ret.a \notin DOMAIN G.nodes[n].children
                      /\ ret.a \notin DOMAIN G.nodes[n].parents

\* remove_node succeeded on a node that had a parent and a child, and its
\* neighbours are still in the graph
C17_Witness ==
    /\ pc = "graph"
    /\ ret.op = "remove_node" /\ ret.err = NoError
    /\ ret.w >= 2
    /\ Cardinality(DOMAIN G.nodes) >= 2

\* C18: after add_edge(u, v, w) returns success, u contains the edge to v,
\* v has u as a parent, and the weight in u's children entry and the weight
\* in v's parents entry are both w.
C18_AddEdgePostcondition ==
    pc = "graph" /\ ret.op = "add_edge" /\ ret.err = NoError =>
        /\ ret.a \in DOMAIN G.nodes /\ ret.b \in DOMAIN G.nodes
        /\ ret.a # ret.b
        /\ Node_contains_edge(G.nodes, ret.a, ret.b)
        /\ Node_check_parent(G.nodes, ret.b, ret.a)
        /\ G.nodes[ret.a].children[ret.b] = ret.w
        /\ G.nodes[ret.b].parents[ret.a] = ret.w

\* add_edge succeeded with weight 2 on a graph that already had an edge
C18_Witness ==
    /\ pc = "graph"
    /\ ret.op = "add_edge" /\ ret.err = NoError /\ ret.w = 2
    /\ \E n \in DOMAIN G.nodes : G.nodes[n].num_children >= 2

\* some node reaches itself along children entries
HasCycle(ns) ==
    \E k \in 1..Cardinality(DOMAIN ns) :
        \E p \in [1..k -> DOMAIN ns] :
            /\ \A i \in 1..(k - 1) : p[i + 1] \in DOMAIN ns[p[i]].children
            /\ p[1] \in DOMAIN ns[p[k]].children

\* what is_dag returned and what the cache holds are true of the graph as it is
CacheCoherent ==
    pc = "graph" =>
        /\ ret.op = "is_dag" => (ret.value <=> ~HasCycle(G.nodes))
        /\ G.dag_cache_valid => (G.dag_cache_result <=> ~HasCycle(G.nodes))

\* a step never lowers version; a step that changes the nodes raises it and
\* drops the memoized answer; is_dag called twice in a row answers the same
VersionBumped ==
    pc = "graph" =>
        /\ G'.version >= G.version
        /\ G'.nodes # G.nodes => G'.version > G.version /\ ~G'.dag_cache_valid
        /\ ret.op = "is_dag" /\ ret'.op = "is_dag" => ret'.value = ret.value

\* C19: after any interleaving of Graph mutators and is_dag calls, is_dag
\* returns true if and only if the graph has no directed cycle; repeated
\* calls without a mutation in between return the same value; every mutation
\* bumps version and invalidates the memoized answer; version never decreases.
C19_DagCacheCoherence == []CacheCoherent /\ [][VersionBumped]_vars

\* is_dag answered false for a graph with a cycle built by three mutations,
\* and the answer is memoized
C19_Witness ==
    /\ pc = "graph"
    /\ ret.op = "is_dag" /\ ~ret.value
    /\ G.dag_cache_valid
    /\ G.version >= 3

\* is_dag answered true, memoized, for a graph with two edges
C19_Acyclic ==
    /\ pc = "graph"
    /\ ret.op = "is_dag" /\ ret.value
    /\ G.dag_cache_valid
    /\ \E n \in DOMAIN G.nodes : G.nodes[n].num_children >= 2

\* C20: get_subgraph_with_tag(t) returns a new graph whose node ids are
\* exactly the ids of the nodes of g tagged t, with the edge u -> v if and
\* only if u and v are both retained and u -> v is an edge of g; g is left
\* unchanged.
C20_SubgraphWithTag ==
    /\ [](pc = "graph" /\ ret.op = "get_subgraph_with_tag" =>
            LET sub == ret.value.nodes
            IN  /\ DOMAIN sub = {n \in DOMAIN G.nodes : G.nodes[n].tag = ret.a}
                /\ \A u \in NodePtrs, v \in NodePtrs :
                       (u \in DOMAIN sub /\ v \in DOMAIN sub[u].children) <=>
                           /\ u \in DOMAIN sub /\ v \in DOMAIN sub
                           /\ v \in DOMAIN G.nodes[u].children)
    /\ [][ret'.op = "get_subgraph_with_tag" => G' = G]_vars

\* the subgraph dropped a node and an edge of g and retained an edge
C20_Witness ==
    /\ pc = "graph"
    /\ ret.op = "get_subgraph_with_tag" /\ ret.a = "t"
    /\ Cardinality(DOMAIN ret.value.nodes) = 2
    /\ Cardinality(DOMAIN G.nodes) = 3
    /\ \E u \in DOMAIN ret.value.nodes : ret.value.nodes[u].num_children = 1
    /\ \E u \in DOMAIN G.nodes : G.nodes[u].tag = "" /\ G.nodes[u].num_parents >= 1

\* the counters of every node are the sizes of its maps, and is_source and
\* is_sink answer for the maps
CountersExact(ns) ==
    \A n \in DOMAIN ns :
        /\ ns[n].num_children = Cardinality(DOMAIN ns[n].children)
        /\ ns[n].num_parents = Cardinality(DOMAIN ns[n].parents)
        /\ Node_is_source(ns, n) <=> DOMAIN ns[n].parents = {}
        /\ Node_is_sink(ns, n) <=> DOMAIN ns[n].children = {}

\* C21: after every sequence of Node edge operations, failing calls and
\* idempotent re-adds included, every node has num_children = |children| and
\* num_parents = |parents|, so is_source holds exactly when it has no parents
\* and is_sink exactly when it has no children.
C21_CounterInvariant == pc = "node" => CountersExact(G.nodes)

\* a re-add with the same weight succeeded, leaving a node that is both a
\* source and a sink next to one edge
C21_Witness ==
    /\ pc = "node"
    /\ ret.op = "Node::add_edge" /\ ret.err = NoError
    /\ ret.b \in DOMAIN G.nodes[ret.a].children
    /\ Node_is_source(G.nodes, ret.a) /\ ~Node_is_sink(G.nodes, ret.a)
    /\ G.nodes[ret.a].num_children = 1

\* no node is among its own children or parents
NoSelfLoops(ns) ==
    \A n \in DOMAIN ns : n \notin DOMAIN ns[n].children /\ n \notin DOMAIN ns[n].parents

\* what one call of Node::add_edge on an existing edge or on the node itself
\* returns, none of the three cases changing a map or a counter
AddEdgeRefusal ==
    ret'.op = "Node::add_edge" =>
        LET m == ret'.a
            n == ret'.b
            had == n \in DOMAIN G.nodes[m].children
        IN  /\ m = n => ret'.err = "SELF_LOOP" /\ G' = G
            /\ had /\ G.nodes[m].children[n] # ret'.w =>
                   ret'.err = "EDGE_ALREADY_EXISTS" /\ G' = G
            /\ had /\ G.nodes[m].children[n] = ret'.w =>
                   ret'.err = NoError /\ G' = G

\* C22: Node::add_edge returns SELF_LOOP for the node itself,
\* EDGE_ALREADY_EXISTS for an existing edge of another weight and success for
\* an existing edge of the same weight; in all three cases the maps and
\* counters of both nodes are unchanged, and no node is ever among its own
\* children or parents.
C22_AddEdgeErrors ==
    /\ [](pc = "node" => NoSelfLoops(G.nodes))
    /\ [][pc = "node" => AddEdgeRefusal]_vars

\* add_edge was refused for an edge that exists with the other weight
C22_Witness ==
    /\ pc = "node"
    /\ ret.op = "Node::add_edge" /\ ret.err = "EDGE_ALREADY_EXISTS"
    /\ ret.b \in DOMAIN G.nodes[ret.a].children
    /\ G.nodes[ret.a].children[ret.b] # ret.w

\* what one call of Graph::add_edge returns in its three error cases, the
\* graph staying as it was
AddEdgeErrorCode ==
    ret'.op = "add_edge" =>
        LET u == ret'.a
            v == ret'.b
            present == u \in DOMAIN G.nodes /\ v \in DOMAIN G.nodes
        IN  /\ ~present => ret'.err = "NODE_DOES_NOT_EXIST" /\ G' = G
            /\ present /\ u = v => ret'.err = "SELF_LOOP_NOT_ALLOWED" /\ G' = G
            /\ present /\ u # v /\ v \in DOMAIN G.nodes[u].children =>
                   ret'.err = "EDGE_ALREADY_EXISTS" /\ G' = G

\* C23: Graph::add_edge returns NODE_DOES_NOT_EXIST when an endpoint is
\* missing, EDGE_ALREADY_EXISTS when the edge exists and
\* SELF_LOOP_NOT_ALLOWED when from_id = to_id, and in each error case the
\* graph's nodes and edges are unchanged.
C23_AddEdgeErrorCodes == [][pc = "graph" => AddEdgeErrorCode]_vars

\* C24: in every clique Bron-Kerbosch turns into a result graph, no two
\* distinct product nodes share a component, and for every two of them the
\* directed edge p[i] -> q[i] is in every input graph or in none.
C24_CommonInducedSubgraph ==
    (BKDone /\ outcome.ok /\ path = "find_maximal_cliques_with_timeout")
    => \A k \in 1..Len(MaximumCliques) :
           \A p \in MaximumCliques[k], q \in MaximumCliques[k] :
               p # q =>
                   /\ \A i \in 1..Len(graphs) : p[i] # q[i]
                   /\ \/ \A i \in 1..Len(graphs) : <<p[i], q[i]>> \in graphs[i].edges
                      \/ \A i \in 1..Len(graphs) : <<p[i], q[i]>> \notin graphs[i].edges

\* the maximal cliques of the product graph of the input graphs
MaximalCliques ==
    LET nodes == ProductNodes(graphs)
        adj == Adjacency(graphs)
        IsClique(S) == \A p \in S, q \in S : p # q => q \in Neighbors(adj, p)
    IN  {S \in SUBSET nodes \ {{}} :
            IsClique(S) /\ \A n \in nodes \ S : ~IsClique(S \cup {n})}

\* C25: when the deadline never expires, the list find_maximal_cliques_with_timeout
\* produces holds exactly the maximal cliques of the product graph, each once,
\* and the result graphs are exactly the cliques of maximum cardinality.
C25_MaximalCliqueEnumeration ==
    (/\ BKDone /\ outcome.ok
     /\ path = "find_maximal_cliques_with_timeout"
     /\ deadline = NoTimeout)
    => /\ {cliques[k] : k \in 1..Len(cliques)} = MaximalCliques
       /\ \A j \in 1..Len(cliques), k \in 1..Len(cliques) :
              j # k => cliques[j] # cliques[k]
       /\ {outcome.results[k].nodes : k \in 1..Len(outcome.results)} =
              {{Join(p) : p \in S} :
                   S \in {T \in MaximalCliques :
                             \A U \in MaximalCliques :
                                 Cardinality(U) <= Cardinality(T)}}

\* the Cartesian product of the node-id sets of the input graphs
CartesianProduct ==
    LET ids == UNION {graphs[i].nodes : i \in 1..Len(graphs)}
    IN  {p \in [1..Len(graphs) -> ids] :
            \A i \in 1..Len(graphs) : p[i] \in graphs[i].nodes}

\* (p[i] -> q[i]) or (q[i] -> p[i]) is an edge of graph i
EdgeEitherWay(p, q, i) ==
    <<p[i], q[i]>> \in graphs[i].edges \/ <<q[i], p[i]>> \in graphs[i].edges

\* the product graph find has built is the Cartesian product with the
\* symmetric, irreflexive adjacency of undirected edge agreement
ProductGraphExact ==
    LET nodes == ProductNodes(graphs)
        adj == Adjacency(graphs)
    IN  /\ nodes = CartesianProduct
        /\ Cardinality(nodes) = NodeCountProduct(graphs, 1)
        /\ DOMAIN adj = nodes
        /\ \A p \in nodes : p \notin adj[p]
        /\ \A p \in nodes, q \in nodes : q \in adj[p] <=> p \in adj[q]
        /\ \A p \in nodes, q \in nodes :
               q \in adj[p] <=>
                   /\ p # q
                   /\ \A i \in 1..Len(graphs), j \in 1..Len(graphs) :
                          EdgeEitherWay(p, q, i) = EdgeEitherWay(p, q, j)

\* C26 as stated: build_product_graph yields the full Cartesian product of the
\* node-id sets (size = product of the node counts) and a symmetric,
\* irreflexive adjacency with q adjacent to p iff p # q and every graph gives
\* the same answer to "p[i] -> q[i] or q[i] -> p[i] is an edge", for every
\* list of graphs handed to it.
C26_ProductGraphAnyList == (BKDone /\ path # "none") => ProductGraphExact

\* C26 amended: the same for a non-empty list of graphs; for the empty list
\* the product graph has no node and no adjacency entry.
C26_ProductGraph ==
    (BKDone /\ path # "none") =>
        IF graphs = <<>>
        THEN ProductNodes(graphs) = {} /\ DOMAIN Adjacency(graphs) = {}
        ELSE ProductGraphExact

\* two graphs holding an edge in opposite directions between the components
\* of an adjacent pair, beside a pair of distinct nodes that is not adjacent
C26_Witness ==
    /\ BKDone /\ path # "none" /\ Len(graphs) = 2
    /\ \E p \in ProductNodes(graphs), q \in ProductNodes(graphs) :
           /\ q \in Adjacency(graphs)[p]
           /\ contains_edge(graphs[1], p[1], q[1])
           /\ ~contains_edge(graphs[2], p[2], q[2])
           /\ contains_edge(graphs[2], q[2], p[2])
    /\ \E p \in ProductNodes(graphs), q \in ProductNodes(graphs) :
           p # q /\ q \notin Adjacency(graphs)[p]

Positive(j) == {e \in DOMAIN entries[j].w : entries[j].w[e] > 0}

LocalRatioSteps == {j \in 1..Len(entries) : entries[j].step = "local ratio"}

\* C28: kPCM_Match called on F with weights 1 returns; at each local ratio
\* step the selected edge has positive weight and gets weight 0, so the set of
\* hyperedges with positive weight strictly shrinks; all weights stay
\* non-negative; there are at most 2|F| + 1 nested calls.
C28_Termination ==
    (KPTDone /\ outcome.ok) =>
        /\ Len(entries) >= 1
        /\ Len(entries) <= 2 * Cardinality(entries[1].F) + 1
        /\ entries[Len(entries)].step \in {"empty", "zero weight"}
        /\ \A e \in entries[1].F : entries[1].w[e] = 1
        /\ \A j \in 1..Len(entries) :
               \A e \in DOMAIN entries[j].w : entries[j].w[e] >= 0
        /\ \A j \in LocalRatioSteps :
               /\ j < Len(entries)
               /\ entries[j].selected_edge \in Positive(j)
               /\ entries[j].selected_edge \notin Positive(j + 1)
               /\ Positive(j + 1) \subseteq Positive(j)
               /\ Positive(j + 1) # Positive(j)

\* three local ratio steps with a pruning call between them
C28_Witness ==
    /\ KPTDone /\ outcome.ok
    /\ Cardinality(LocalRatioSteps) >= 3
    /\ \E j \in 1..Len(entries) : entries[j].step = "zero-value edges"

\* C29: in every call of kPCM_Match reached from KPT::find that gets past the
\* zero-value pruning, the conflict sum of every hyperedge is at most the sum
\* of all x, which is 1 <= alpha = 2N; the selected edge is the
\* lexicographically smallest hyperedge of F and the branch for no
\* low-conflict edge is not taken.
C29_FirstElementSelected ==
    (KPTDone /\ outcome.ok) =>
        \A j \in LocalRatioSteps :
            LET F == entries[j].F
                w == entries[j].w
                total_weight == SumWeights(F, w)
            IN  /\ total_weight > 0
                /\ \A e \in F :
                       SumWeights({q \in F : are_conflicting(e, q, graphs)}, w)
                           <= total_weight
                /\ total_weight <= 2 * Len(graphs) * total_weight
                /\ entries[j].found
                /\ entries[j].selected_edge \in F
                /\ \A e \in F : ~TupleLess(e, entries[j].selected_edge)

\* a local ratio step on several hyperedges whose selected edge conflicts with
\* another one and is not the last to be selected
C29_Witness ==
    /\ KPTDone /\ outcome.ok
    /\ Cardinality(LocalRatioSteps) >= 2
    /\ \E j \in LocalRatioSteps :
           \E q \in entries[j].F :
               /\ q # entries[j].selected_edge
               /\ are_conflicting(entries[j].selected_edge, q, graphs)

\* the universe of hyperedges: one node per graph that carries the tag, or
\* any node when no tag is given
TaggedUniverse ==
    LET ids == UNION {graphs[i].nodes : i \in 1..Len(graphs)}
    IN  {p \in [1..Len(graphs) -> ids] :
            \A i \in 1..Len(graphs) :
                /\ p[i] \in graphs[i].nodes
                /\ tag = NoTag \/ graphs[i].tag[p[i]] = tag}

\* C30: for a non-empty list of graphs with at least one node each, the result
\* graph of KPT::find has at least one node and every hyperedge of the
\* universe conflicts with a hyperedge of the returned matching, also for a
\* tag that no node of some graph carries.
C30_MaximalMatching ==
    (KPTDone /\ graphs # <<>> /\ AllNonEmpty) =>
        /\ outcome.ok
        /\ Len(outcome.results) = 1
        /\ outcome.results[1].nodes = {Join(m) : m \in matching}
        /\ get_num_nodes(outcome.results[1]) >= 1
        /\ \A h \in TaggedUniverse : \E m \in matching : ~NonConflicting(h, m)

====
